---- MODULE Spec2Model ----
(***************************************************************************)
(* Model of the moderation core of PulseBot-Framework: the case ledger     *)
(* (moderationService), the delayed reversal of temporary sanctions        *)
(* (mute / ban / unmute commands) and the report workflow                  *)
(* (interactionCreate + reportVerdictHandler).                             *)
(*                                                                         *)
(* Every handler of the program is an async function: it runs atomically   *)
(* between two awaits and may interleave with any other handler at an      *)
(* await.  One action of the model is one such atomic stretch, ending at   *)
(* the persistence / gateway call whose effect it carries.                 *)
(***************************************************************************)
EXTENDS Integers, Sequences, FiniteSets, TLC

\* ------------------------------------------------------------------ bounds
MaxCalls == 3
MaxCmds == 3
MaxTime == 1
MaxClicks == 4
MaxTicketOps == 3
MaxDocs == 3
MaxLen == 4
MaxHistory == 5
MaxLines == 4
MaxJoins == 2
MaxClock == 1
MaxMessages == 3

CallIds == 1..MaxCalls
CmdIds == 1..MaxCmds
Guilds == {"g1", "g2"}
Users == {"u1", "u2"}
Mods == {"m1", "m2"}
TicketOps == 1..MaxTicketOps
TicketIds == 1..MaxTicketOps
Staff == {"s1", "s2"}
Requesters == {"u1"}

\* ------------------------------------------------------------------- state
VARIABLES
    counters,   \* ModerationCounter collection: guildId -> lastCaseId (partial)
    cases,      \* ModerationCase collection: a set of documents
    call,       \* createModerationCase invocations in flight
    allocLog,   \* invocations in the order getNextCaseId returned to them
    sanctioned, \* the platform's state: <<user, kind>> -> carries the sanction
    episode,    \* <<user, kind>> -> how many times the sanction was put on
    now,        \* the clock, in ticks of TickS
    cmd,        \* /mute, /ban and /unmute invocations in flight
    timer,      \* the setTimeout callback each invocation scheduled
    lifts,      \* every lift that resolved: [user, kind, ep, by, auto]
    failedEps,  \* <<user, kind, ep>> for which a step of a callback threw
    notice,     \* the commands whose notifications ran, and how the latest ended
    report,     \* the report message in the staff channel
    mod,        \* each moderator's button / form interaction in flight
    clicks,     \* button interactions received so far
    given,      \* a verdict has been written onto the report message
    priv,       \* private channels created for the report, none closed
    ticket,     \* the ticket channels, by the order of their creation
    tproc,      \* ticket button / form interactions in flight
    query,      \* the latest getUserCases call: its arguments and its result
    stats,      \* the getUserStats call in flight: its two reads and its result
    codec,      \* the latest parseDurationInput / formatDuration call
    channel,    \* a ticket channel: the ids of its messages, oldest first
    paging,     \* the generateTranscript call reading that channel
    chunker,    \* the generateTranscript call sending its text in parts
    gate,       \* STAFF_ROLE_IDS and the latest staff-restricted interaction
    welcome,    \* welcomeDedupCache, its timers and the join events in flight
    purge       \* the deleteAllMessages call and the channel it empties

ledgerVars == <<counters, cases, call, allocLog>>
schedVars == <<sanctioned, episode, now, cmd, timer, lifts, failedEps, notice>>
reportVars == <<report, mod, clicks, given, priv>>
ticketVars == <<ticket, tproc>>
queryVars == <<query, stats, codec>>
eventVars == <<gate, welcome, purge>>
toolVars == <<channel, paging, chunker, eventVars>>
nonLedgerVars == <<schedVars, reportVars, ticketVars, queryVars, toolVars>>
vars == <<counters, cases, call, allocLog,
          sanctioned, episode, now, cmd, timer, lifts, failedEps, notice,
          report, mod, clicks, given, priv, ticket, tproc, query, stats, codec,
          channel, paging, chunker, gate, welcome, purge>>

\* The reversal timers are keyed by subject and kind of sanction, within the
\* one guild the scheduler is exercised in.
SchedGuild == "g1"
SchedUsers == {"u1"}
Kinds == {"mute", "ban"}
\* The members a command can name: a plain member, the moderator themself, a
\* member of the moderator's rank, the owner of the guild, somebody who has
\* left, and a bot.
Moderator == [id |-> "m1", rank |-> 2]
GuildOwner == "boss"
SanctionTargets ==
    {[id |-> "u1", member |-> TRUE, bot |-> FALSE, rank |-> 1],
     [id |-> "m1", member |-> TRUE, bot |-> FALSE, rank |-> 2],
     [id |-> "peer", member |-> TRUE, bot |-> FALSE, rank |-> 2],
     [id |-> "boss", member |-> TRUE, bot |-> FALSE, rank |-> 3],
     [id |-> "gone", member |-> FALSE, bot |-> FALSE, rank |-> 0],
     [id |-> "bot1", member |-> TRUE, bot |-> TRUE, rank |-> 1]}
TargetIds == {t.id : t \in SanctionTargets}
SchedTargets == {t \in SanctionTargets : t.id \in SchedUsers}
Keys == TargetIds \X (Kinds \cup {"kick"})

NoNotice == [told |-> {}, of |-> "none", result |-> "none"]
\* expiresAt: 0 when the command computed none.
IdleCmd == [pc |-> "idle", op |-> "mute", user |-> "u1", dur |-> 0, ep |-> 0,
            expiresAt |-> 0]
NoTimer == [pc |-> "none", fireAt |-> 0, saw |-> FALSE, outcome |-> "none",
            attempts |-> 0, ep |-> 0, notifs |-> 0, cancelled |-> FALSE]

\* An optional caseId is the empty set (absent) or a singleton.
NoCaseId == {}
HasCaseId(c) == c.caseId # {}
CaseIdOf(c) == CHOOSE k \in c.caseId : TRUE

IdleCall == [pc |-> "idle", guildId |-> "g1", userId |-> "u1", type |-> "note",
             gen |-> FALSE, caseId |-> NoCaseId]

\* ---------------------------------------------------------- the case store
\* moderationCounterSchema: lastCaseId defaults to 0 on insert.
CounterDefault == 0

\* The increment applied without its {guildId} filter: every stored counter
\* moves (what the code does not do).
FindOneAndUpdateIncUnfiltered(g) ==
    LET all == [h \in DOMAIN counters |-> counters[h] + 1]
    IN  IF g \in DOMAIN counters THEN all
        ELSE all @@ (g :> (CounterDefault + 1))

\* findOneAndUpdate({guildId}, {$inc: {lastCaseId: 1}}, {upsert, new}) as the one
\* atomic operation of the counter store: the collection after it.
FindOneAndUpdateInc(g) ==
    IF g \in DOMAIN counters
    THEN [counters EXCEPT ![g] = @ + 1]
    ELSE counters @@ (g :> (CounterDefault + 1))

\* The value getNextCaseId returns: counter?.lastCaseId ?? 1, read from the
\* document as it is after the update (new: true).
GetNextCaseIdResultOld(g) ==
    IF g \in DOMAIN counters THEN counters[g] ELSE 1

GetNextCaseIdResult(g) == FindOneAndUpdateInc(g)[g]

\* The sparse unique index {guildId, caseId}: an insert is refused when a stored
\* case of the same guild already carries the same caseId.
DuplicateKey(rec) ==
    /\ HasCaseId(rec)
    /\ \E c \in cases :
          /\ c.guildId = rec.guildId
          /\ c.caseId = rec.caseId

\* options?.generateCaseId ?? false
ShouldGenerateAlways(gen) == TRUE

ShouldGenerateCaseId(gen) == gen

\* The payload handed to ModerationCaseModel.create: the caseId is embedded
\* only when it was asked for and is truthy.
CreatePayload(payload, gen, caseId) ==
    IF ShouldGenerateCaseId(gen) /\ caseId # NoCaseId /\ caseId # {0}
    THEN [payload EXCEPT !.caseId = caseId]
    ELSE [payload EXCEPT !.caseId = NoCaseId]

\* ------------------------------------------------- createModerationCase(p)
\* The call is made: options?.generateCaseId ?? false, then either the
\* counter update or the insert is issued.
CallStart(p, g, u, t, gen) ==
    /\ call[p].pc = "idle"
    /\ \A q \in CallIds : q < p => call[q].pc # "idle"
    /\ call' = [call EXCEPT ![p] = [pc |-> IF ShouldGenerateCaseId(gen)
                                           THEN "alloc" ELSE "create",
                                    guildId |-> g, userId |-> u, type |-> t,
                                    gen |-> gen, caseId |-> NoCaseId]]
    /\ UNCHANGED <<counters, cases, allocLog, nonLedgerVars>>

\* getNextCaseId: the atomic increment, and its result counter.lastCaseId.
GetNextCaseId(p) ==
    /\ call[p].pc = "alloc"
    /\ counters' = FindOneAndUpdateInc(call[p].guildId)
    /\ call' = [call EXCEPT ![p].pc = "create",
                            ![p].caseId = {GetNextCaseIdResult(call[p].guildId)}]
    /\ allocLog' = Append(allocLog, p)
    /\ UNCHANGED <<cases, nonLedgerVars>>

\* getNextCaseId rejects (the counter store is unreachable): the call throws
\* before anything was written.
GetNextCaseIdFail(p) ==
    /\ call[p].pc = "alloc"
    /\ call' = [call EXCEPT ![p].pc = "failed"]
    /\ UNCHANGED <<counters, cases, allocLog, nonLedgerVars>>

\* A payload that embeds the counter as it is read when the insert is issued
\* (a separate read in caller code) instead of the value returned.
CaseOfReread(p) ==
    [guildId |-> call[p].guildId, userId |-> call[p].userId,
     type |-> call[p].type,
     caseId |-> IF call[p].gen THEN {counters[call[p].guildId]} ELSE NoCaseId,
     automated |-> FALSE, by |-> <<"call", p>>]

CaseOf(p) ==
    CreatePayload([guildId |-> call[p].guildId, userId |-> call[p].userId,
                   type |-> call[p].type, caseId |-> NoCaseId,
                   automated |-> FALSE, by |-> <<"call", p>>],
                  call[p].gen, call[p].caseId)

\* ModerationCaseModel.create(createPayload) succeeds, or is refused by the
\* unique index.
CreateCase(p) ==
    /\ call[p].pc = "create"
    /\ IF DuplicateKey(CaseOf(p))
       THEN /\ call' = [call EXCEPT ![p].pc = "failed"]
            /\ UNCHANGED cases
       ELSE /\ cases' = cases \cup {CaseOf(p)}
            /\ call' = [call EXCEPT ![p].pc = "done"]
    /\ UNCHANGED <<counters, allocLog, nonLedgerVars>>

\* A rejected insert that gives the id back to the counter (what the code
\* does not do).
CreateCaseFailRollback(p) ==
    /\ call[p].pc = "create"
    /\ call' = [call EXCEPT ![p].pc = "failed"]
    /\ counters' = IF call[p].gen
                   THEN [counters EXCEPT ![call[p].guildId] = @ - 1]
                   ELSE counters
    /\ UNCHANGED <<cases, allocLog, nonLedgerVars>>

\* ModerationCaseModel.create rejects (write failure): the call throws, the
\* counter keeps the increment.
CreateCaseFail(p) ==
    /\ call[p].pc = "create"
    /\ call' = [call EXCEPT ![p].pc = "failed"]
    /\ UNCHANGED <<counters, cases, allocLog, nonLedgerVars>>

LedgerUsers == {"u1"}
LedgerTypes == {"note"}

\* No report message yet; a moderator with no interaction in flight.
NoReport == [submitted |-> FALSE, posted |-> FALSE, fields |-> <<>>,
             components |-> FALSE, rejected |-> FALSE]
IdleMod == [pc |-> "idle", op |-> "none", snap |-> <<>>, late |-> FALSE,
            sent |-> 0, edited |-> FALSE, dm |-> <<"none", "none">>]

\* A channel id no ticket has yet; an interaction slot nothing has used yet.
\* atClose is the status and the staff the ticket had when its closing
\* message was sent.
NoTicket == [created |-> FALSE, live |-> FALSE, owner |-> "none",
             status |-> "none", staff |-> "none", closing |-> FALSE,
             atClose |-> <<"none", "none">>]
IdleTicketOp == [pc |-> "idle", op |-> "none", user |-> "none", t |-> 0,
                 ref |-> 0, result |-> "none", raised |-> FALSE,
                 cfg |-> "unread", reads |-> 0, delivered |-> 0]

\* No getUserCases call yet; no getUserStats call yet.
NoLimit == [given |-> FALSE, n |-> 0]
NoQuery == [pc |-> "none", guildId |-> "g1", userId |-> "u1", type |-> "none",
            limit |-> NoLimit, result |-> <<>>]
IdleStats == [pc |-> "idle", guildId |-> "g1", userId |-> "u1",
              aggregated |-> FALSE, counted |-> {}, counts |-> <<>>,
              found |-> FALSE, lastCase |-> {},
              totalCases |-> 0, typeCounts |-> <<>>, lastAction |-> {}]

\* No call of the duration functions yet.
\* generateTranscript before its loop; history is the channel as the first
\* fetch found it.
NoPaging == [pc |-> "idle", messages |-> <<>>, lastMessageId |-> 0,
             fetches |-> 0, history |-> <<>>, disturbed |-> FALSE]
EmptyChannel == [posted |-> 0, ids |-> <<>>]
\* generateTranscript before it sends the text: no lines, nothing sent.
NoPart == [lines |-> <<>>, length |-> 0]
NoChunker == [pc |-> "idle", lines |-> <<>>, i |-> 0, currentPart |-> NoPart,
              parts |-> <<>>, sent |-> <<>>]
NoCodec == [op |-> "none", raw |-> <<>>, ms |-> 0, parsed |-> 0, text |-> <<>>]

\* No interaction received yet, STAFF_ROLE_IDS not read yet.
NoMember == [inGuild |-> FALSE, roles |-> {}, manageGuild |-> FALSE]
NoInteraction == [customId |-> "none", access |-> "none", guildOnly |-> FALSE]
NoGate == [pc |-> "boot", staffRoleIds |-> {}, interaction |-> NoInteraction,
           member |-> NoMember, reply |-> "none", effect |-> FALSE]

\* client.welcomeDedupCache = new Map(): no guild has an inner map, no timeout
\* is pending, no member has joined.
NoWelcome == [now |-> 0, maps |-> {}, timeouts |-> {}, joins |-> <<>>]

\* deleteAllMessages not called yet.
NoPurge == [pc |-> "idle", content |-> <<>>, messages |-> <<>>, i |-> 0,
            deleted |-> 0, failed |-> 0, fetched |-> {}]

\* The state after construction: empty collections, nobody sanctioned, no
\* command received, no timer armed.
Init ==
    /\ counters = <<>>
    /\ cases = {}
    /\ call = [p \in CallIds |-> IdleCall]
    /\ allocLog = <<>>
    /\ sanctioned = [k \in Keys |-> FALSE]
    /\ episode = [k \in Keys |-> 0]
    /\ now = 0
    /\ cmd = [c \in CmdIds |-> IdleCmd]
    /\ timer = [c \in CmdIds |-> NoTimer]
    /\ lifts = {}
    /\ failedEps = {}
    /\ notice = NoNotice
    /\ report = NoReport
    /\ mod = [m \in Mods |-> IdleMod]
    /\ clicks = 0
    /\ given = FALSE
    /\ priv = 0
    /\ ticket = [t \in TicketIds |-> NoTicket]
    /\ tproc = [p \in TicketOps |-> IdleTicketOp]
    /\ query = NoQuery
    /\ stats = IdleStats
    /\ codec = NoCodec
    /\ channel = EmptyChannel
    /\ paging = NoPaging
    /\ chunker = NoChunker
    /\ gate = NoGate
    /\ welcome = NoWelcome
    /\ purge = NoPurge

LedgerInit == Init

LedgerNext ==
    \/ \E p \in CallIds, g \in Guilds, u \in LedgerUsers, t \in LedgerTypes,
             gen \in BOOLEAN :
          CallStart(p, g, u, t, gen)
    \/ \E p \in CallIds : GetNextCaseId(p)
    \/ \E p \in CallIds : GetNextCaseIdFail(p)
    \/ \E p \in CallIds : CreateCase(p)
    \/ \E p \in CallIds : CreateCaseFail(p)

SpecLedger == LedgerInit /\ [][LedgerNext]_vars

\* ================================================================ the queries
\* The documents the queries are exercised on: two guilds, two members, two
\* types.  timestamps: true gives every document the createdAt of its insert;
\* two inserts within one millisecond carry the same createdAt.
QueryGuild == "g1"
QuerySubject == "u1"
QueryKeys == {<<"g1", "u1">>, <<"g2", "u1">>, <<"g1", "u2">>}
QueryTypes == {"warn", "mute"}
Latest == IF cases = {} THEN 0
          ELSE CHOOSE t \in {c.createdAt : c \in cases} :
                  \A c \in cases : c.createdAt <= t

Timestamps(doc, at) ==
    [guildId |-> doc.guildId, userId |-> doc.userId, type |-> doc.type,
     caseId |-> doc.caseId, automated |-> doc.automated, by |-> doc.by,
     createdAt |-> at]

\* createModerationCase(payload) of a command: ModerationCaseModel.create
\* resolves, the document carrying its createdAt.
RecordCase(g, u, t, at) ==
    /\ Cardinality(cases) < MaxDocs
    /\ at \in {Latest, Latest + 1}
    /\ cases' = cases \cup
          {Timestamps(CreatePayload(
                          [guildId |-> g, userId |-> u, type |-> t,
                           caseId |-> NoCaseId, automated |-> FALSE,
                           by |-> <<"insert", Cardinality(cases) + 1>>],
                          ShouldGenerateCaseId(FALSE), NoCaseId), at)}
    /\ UNCHANGED <<counters, call, allocLog, schedVars, reportVars, ticketVars, toolVars, query, stats, codec>>

\* find(filter): guildId and userId always, type when options.type is truthy.
Find(g, u, type) ==
    {c \in cases : /\ c.guildId = g /\ c.userId = u
                   /\ type # "none" => c.type = type}

\* The orders sort({createdAt: -1}) can return a set of documents in: newest
\* first, documents of equal createdAt in any order.
RECURSIVE Orders(_)
Orders(S) ==
    IF S = {} THEN {<<>>}
    ELSE UNION {{<<c>> \o rest : rest \in Orders(S \ {c})} :
                  c \in {d \in S : \A e \in S : e.createdAt <= d.createdAt}}

\* query.limit(n) is called only when options.limit is truthy.
ApplyLimit(docs, limit) ==
    IF limit.given /\ limit.n # 0
    THEN SubSeq(docs, 1, IF limit.n < Len(docs) THEN limit.n ELSE Len(docs))
    ELSE docs

Limits == {NoLimit} \cup [given : {TRUE}, n : 0..2]

\* getUserCases(guildId, userId, {limit, type}).
GetUserCases(g, u, type, limit) ==
    /\ \E docs \in Orders(Find(g, u, type)) :
          query' = [pc |-> "done", guildId |-> g, userId |-> u, type |-> type,
                    limit |-> limit, result |-> ApplyLimit(docs, limit)]
    /\ UNCHANGED <<ledgerVars, schedVars, reportVars, ticketVars, toolVars, stats, codec>>

\* The history of one member of one guild is asked for; the ledger also
\* holds cases of another member and of another guild.
QueryNext ==
    \/ \E k \in QueryKeys, t \in QueryTypes, at \in 0..MaxDocs :
          RecordCase(k[1], k[2], t, at)
    \/ \E type \in QueryTypes \cup {"none"}, limit \in Limits :
          GetUserCases(QueryGuild, QuerySubject, type, limit)

SpecQuery == Init /\ [][QueryNext]_vars

\* getUserStats is called: Promise.all issues the aggregate and the findOne.
StatsStart(g, u) ==
    /\ stats.pc = "idle"
    /\ stats' = [stats EXCEPT !.pc = "reading", !.guildId = g, !.userId = u]
    /\ UNCHANGED <<ledgerVars, schedVars, reportVars, ticketVars, toolVars, query, codec>>

\* $match {guildId, userId}, $group by type with $sum 1: one entry per type
\* that has a case.
GroupCounts(S) ==
    [t \in {c.type : c \in S} |-> Cardinality({c \in S : c.type = t})]

\* The aggregate is evaluated by the store.
StatsAggregate ==
    /\ stats.pc = "reading" /\ ~stats.aggregated
    /\ LET S == Find(stats.guildId, stats.userId, "none")
       IN  stats' = [stats EXCEPT !.aggregated = TRUE, !.counted = S,
                                  !.counts = GroupCounts(S)]
    /\ UNCHANGED <<ledgerVars, schedVars, reportVars, ticketVars, toolVars, query, codec>>

\* findOne({guildId, userId}).sort({createdAt: -1}) is evaluated by the store:
\* null, or a case no other matching case is newer than.
StatsFindOne ==
    /\ stats.pc = "reading" /\ ~stats.found
    /\ LET S == Find(stats.guildId, stats.userId, "none")
       IN  \E docs \in Orders(S) :
              stats' = [stats EXCEPT !.found = TRUE,
                                     !.lastCase = IF docs = <<>> THEN {}
                                                  ELSE {docs[1]}]
    /\ UNCHANGED <<ledgerVars, schedVars, reportVars, ticketVars, toolVars, query, codec>>

\* counts.reduce((acc, entry) => acc + entry.count, 0)
RECURSIVE TotalCases(_)
TotalCases(counts) ==
    IF DOMAIN counts = {} THEN 0
    ELSE LET t == CHOOSE x \in DOMAIN counts : TRUE
         IN  counts[t] + TotalCases([x \in DOMAIN counts \ {t} |-> counts[x]])

\* Both reads have resolved: the stats object is put together and returned.
StatsReturn ==
    /\ stats.pc = "reading" /\ stats.aggregated /\ stats.found
    /\ stats' = [stats EXCEPT !.pc = "done",
                              !.totalCases = TotalCases(stats.counts),
                              !.typeCounts = stats.counts,
                              !.lastAction = stats.lastCase]
    /\ UNCHANGED <<ledgerVars, schedVars, reportVars, ticketVars, toolVars, query, codec>>

\* One getUserStats call while cases are being recorded.
StatsNext ==
    \/ \E k \in QueryKeys, t \in QueryTypes, at \in 0..MaxDocs :
          RecordCase(k[1], k[2], t, at)
    \/ StatsStart(QueryGuild, QuerySubject)
    \/ StatsAggregate
    \/ StatsFindOne
    \/ StatsReturn

SpecStats == Init /\ [][StatsNext]_vars

\* =========================================================== the transcript
\* channel.messages.fetch({limit: 100, before}) of the platform: the newest
\* `limit` messages older than `before` (0: no before), newest first.  The
\* page size stands for the 100 of the code.
PageLimit == 2

Reverse(seq) == [i \in 1..Len(seq) |-> seq[Len(seq) + 1 - i]]

\* A fetch that takes `before` itself into the page (what the platform does
\* not do).
FetchInclusive(history, before, limit) ==
    LET older == SelectSeq(history, LAMBDA id : before = 0 \/ id <= before)
        n == Len(older)
        k == IF n < limit THEN n ELSE limit
    IN  Reverse(SubSeq(older, n - k + 1, n))

Fetch(history, before, limit) ==
    LET older == SelectSeq(history, LAMBDA id : before = 0 \/ id < before)
        n == Len(older)
        k == IF n < limit THEN n ELSE limit
    IN  Reverse(SubSeq(older, n - k + 1, n))

\* A message is posted in the ticket channel; ids grow with time.
Post ==
    /\ channel.posted < MaxHistory
    /\ channel' = [posted |-> channel.posted + 1,
                   ids |-> Append(channel.ids, channel.posted + 1)]
    /\ UNCHANGED <<ledgerVars, schedVars, reportVars, ticketVars, queryVars, eventVars, chunker, paging>>

\* A message of the channel is deleted by its author or by the staff; a
\* transcript that is being read is disturbed by it.
Delete(id) ==
    /\ \E i \in 1..Len(channel.ids) : channel.ids[i] = id
    /\ channel' = [channel EXCEPT !.ids = SelectSeq(@, LAMBDA m : m # id)]
    /\ paging' = [paging EXCEPT !.disturbed =
                      @ \/ (paging.pc = "fetch" /\ paging.fetches > 0)]
    /\ UNCHANGED <<ledgerVars, schedVars, reportVars, ticketVars, queryVars, eventVars, chunker>>

\* generateTranscript reaches its loop: messages = [], lastMessageId
\* undefined.  The transcript button can be pressed again after a transcript.
StartPaging ==
    /\ paging.pc \in {"idle", "done"}
    /\ paging' = [NoPaging EXCEPT !.pc = "fetch"]
    /\ UNCHANGED <<ledgerVars, schedVars, reportVars, ticketVars, queryVars, eventVars, chunker, channel>>

\* One turn of the loop: fetch; break on an empty page; push; remember the
\* id of the last message of the page; break on a page that is not full.
FetchPage ==
    /\ paging.pc = "fetch"
    /\ LET fetched == Fetch(channel.ids, paging.lastMessageId, PageLimit)
       IN  paging' = [paging EXCEPT
              !.fetches = @ + 1,
              !.history = IF paging.fetches = 0 THEN channel.ids ELSE @,
              !.messages = @ \o fetched,
              !.lastMessageId = IF Len(fetched) = 0 THEN @
                                ELSE fetched[Len(fetched)],
              !.pc = IF Len(fetched) = 0 \/ Len(fetched) < PageLimit
                     THEN "reverse" ELSE "fetch"]
    /\ UNCHANGED <<ledgerVars, schedVars, reportVars, ticketVars, queryVars, eventVars, chunker, channel>>

\* messages.reverse(): oldest first.
ReverseMessages ==
    /\ paging.pc = "reverse"
    /\ paging' = [paging EXCEPT !.messages = Reverse(@), !.pc = "done"]
    /\ UNCHANGED <<ledgerVars, schedVars, reportVars, ticketVars, queryVars, eventVars, chunker, channel>>

PagingNext ==
    \/ Post
    \/ \E id \in 1..MaxHistory : Delete(id)
    \/ StartPaging
    \/ FetchPage
    \/ ReverseMessages

SpecPaging == Init /\ [][PagingNext]_vars

\* The sending of the text.  A line is known by its length; a part by the
\* lines whose characters it holds (by their index in the text) and by its
\* length.  maxLength stands for the 1900 of the code; the 10 of the test
\* and the 8 characters of the two fences are those of the code.
MaxLength == 20
FenceLength == 8
LineLengths == {0, 4, 13}
Texts == UNION {[1..n -> LineLengths] : n \in 1..MaxLines}

RECURSIVE Sum(_)
Sum(seq) == IF seq = <<>> THEN 0 ELSE Head(seq) + Sum(Tail(seq))

\* transcriptLines.join("\n").length
TextLength(lines) == Sum(lines) + Len(lines) - 1

\* `\`\`\`\n${body}\n\`\`\``
Fenced(part) == [lines |-> part.lines, length |-> part.length + FenceLength]

\* generateTranscript has its text: transcriptWithCode is sent whole when it
\* fits, otherwise the text is split into its lines.
StartChunks(lines) ==
    /\ chunker.pc = "idle"
    /\ chunker' =
          IF TextLength(lines) + FenceLength <= MaxLength
          THEN [NoChunker EXCEPT
                   !.pc = "done", !.lines = lines,
                   !.sent = <<[lines |-> [k \in 1..Len(lines) |-> k],
                               length |-> TextLength(lines) + FenceLength]>>]
          ELSE [NoChunker EXCEPT !.pc = "split", !.lines = lines, !.i = 1]
    /\ UNCHANGED <<ledgerVars, schedVars, reportVars, ticketVars, queryVars, eventVars, channel, paging>>

\* One turn of `for (const line of lines)`.  An empty currentPart is falsy:
\* the line is joined to it without a newline, and it is not pushed.
SplitLine ==
    /\ chunker.pc = "split" /\ chunker.i <= Len(chunker.lines)
    /\ LET line == chunker.lines[chunker.i]
           cur == chunker.currentPart
           truthy == cur.length > 0
           lineWithNewline == IF truthy THEN 1 + line ELSE line
       IN  chunker' =
             IF cur.length + lineWithNewline + 10 > MaxLength
             THEN [chunker EXCEPT
                      !.parts = IF truthy THEN Append(@, Fenced(cur)) ELSE @,
                      !.currentPart = [lines |-> <<chunker.i>>, length |-> line],
                      !.i = @ + 1]
             ELSE [chunker EXCEPT
                      !.currentPart =
                          [lines |-> (IF truthy THEN cur.lines ELSE <<>>)
                                        \o <<chunker.i>>,
                           length |-> cur.length + lineWithNewline],
                      !.i = @ + 1]
    /\ UNCHANGED <<ledgerVars, schedVars, reportVars, ticketVars, queryVars, eventVars, channel, paging>>

\* After the loop: the last currentPart is pushed unless it is empty.
PushLast ==
    /\ chunker.pc = "split" /\ chunker.i > Len(chunker.lines)
    /\ chunker' = [chunker EXCEPT
          !.parts = IF chunker.currentPart.length > 0
                    THEN Append(@, Fenced(chunker.currentPart)) ELSE @,
          !.pc = "send"]
    /\ UNCHANGED <<ledgerVars, schedVars, reportVars, ticketVars, queryVars, eventVars, channel, paging>>

\* `for (const part of parts)`: transcriptChannel.send of the next part.
SendPart ==
    /\ chunker.pc = "send"
    /\ chunker' = IF Len(chunker.sent) < Len(chunker.parts)
                  THEN [chunker EXCEPT
                           !.sent = Append(@, chunker.parts[Len(@) + 1])]
                  ELSE [chunker EXCEPT !.pc = "done"]
    /\ UNCHANGED <<ledgerVars, schedVars, reportVars, ticketVars, queryVars, eventVars, channel, paging>>

ChunkNext ==
    \/ \E lines \in Texts : StartChunks(lines)
    \/ SplitLine
    \/ PushLast
    \/ SendPart

SpecChunk == Init /\ [][ChunkNext]_vars

\* ========================================================= the staff access
\* accessControl.ts and the prologue of every handler of interactionCreate.
\* A member is what the check reads of the interaction: whether it comes from
\* a guild, the roles of the member and whether the member's permissions
\* include ManageGuild.  Outside a guild the interaction has no member and no
\* member permissions.
RoleIds == {"r1", "r2"}
StaffRoleConfigs == {{}, {"r1"}}
Members ==
    {m \in [inGuild : BOOLEAN, roles : SUBSET RoleIds, manageGuild : BOOLEAN] :
        ~m.inGuild => m = NoMember}

\* The buttons and forms whose handler begins with the staff check, and the
\* two that everybody may use.
StaffComponents ==
    {"take_report_", "give_verdict_", "open_private_channel_",
     "close_report_channel_", "ticket_take_", "ticket_close_",
     "ticket_transcript_", "close_ticket_modal_", "verdict_modal_"}
OpenComponents == {"ticket_open_", "report_user_modal"}
ComponentInteractions ==
    {[customId |-> id, access |-> IF id \in StaffComponents THEN "staff" ELSE "everyone",
      guildOnly |-> TRUE] : id \in StaffComponents \cup OpenComponents}
CommandInteractions ==
    [customId : {"command"}, access : {"staff", "everyone"}, guildOnly : BOOLEAN]

MemberHasStaffRole(member, staffRoleIds) ==
    /\ staffRoleIds # {}
    /\ member.roles \cap staffRoleIds # {}

\* hasStaffAccess, were it to accept ManageGuild whatever the configuration.
HasStaffAccessAnyManager(member, staffRoleIds) ==
    /\ member.inGuild
    /\ \/ MemberHasStaffRole(member, staffRoleIds)
       \/ member.manageGuild

HasStaffAccess(member, staffRoleIds) ==
    /\ member.inGuild
    /\ \/ MemberHasStaffRole(member, staffRoleIds)
       \/ staffRoleIds = {} /\ member.manageGuild

\* The module is loaded: STAFF_ROLE_IDS is read once.
LoadStaffRoles(ids) ==
    /\ gate.pc = "boot"
    /\ gate' = [gate EXCEPT !.pc = "idle", !.staffRoleIds = ids]
    /\ UNCHANGED <<ledgerVars, schedVars, reportVars, ticketVars, queryVars,
                   channel, paging, chunker, welcome, purge>>

\* An interaction arrives; the previous one has been answered.
Receive(interaction, member) ==
    /\ gate.pc \in {"idle", "refused", "ran"}
    /\ gate' = [gate EXCEPT !.pc = "received", !.interaction = interaction,
                            !.member = member, !.reply = "none",
                            !.effect = FALSE]
    /\ UNCHANGED <<ledgerVars, schedVars, reportVars, ticketVars, queryVars,
                   channel, paging, chunker, welcome, purge>>

\* The prologue: the guild check, then the staff check, each answering with
\* its refusal and returning; an interaction that passes both goes on.
Prologue ==
    /\ gate.pc = "received"
    /\ gate' =
         IF gate.interaction.guildOnly /\ ~gate.member.inGuild
         THEN [gate EXCEPT !.pc = "refused", !.reply = "serverOnly"]
         ELSE IF /\ gate.interaction.access = "staff"
                 /\ ~HasStaffAccess(gate.member, gate.staffRoleIds)
         THEN [gate EXCEPT !.pc = "refused", !.reply = "staffOnly"]
         ELSE [gate EXCEPT !.pc = "admitted"]
    /\ UNCHANGED <<ledgerVars, schedVars, reportVars, ticketVars, queryVars,
                   channel, paging, chunker, welcome, purge>>

\* The rest of the handler: its deferral or form, and what it does.
RunHandler ==
    /\ gate.pc = "admitted"
    /\ gate' = [gate EXCEPT !.pc = "ran", !.effect = TRUE]
    /\ UNCHANGED <<ledgerVars, schedVars, reportVars, ticketVars, queryVars,
                   channel, paging, chunker, welcome, purge>>

GateNext ==
    \/ \E ids \in StaffRoleConfigs : LoadStaffRoles(ids)
    \/ /\ gate.pc \in {"idle", "refused", "ran"}
       /\ \E interaction \in ComponentInteractions \cup CommandInteractions,
             member \in Members : Receive(interaction, member)
    \/ Prologue
    \/ RunHandler

SpecGate == Init /\ [][GateNext]_vars

\* C37: a staff-restricted interaction has an effect only for a caller who,
\* inside a guild, holds a configured staff role or, no staff role being
\* configured, the ManageGuild permission; every other caller gets the
\* refusal and nothing else.
C37_StaffGate ==
    gate.interaction.access = "staff" =>
        /\ gate.effect =>
              /\ gate.member.inGuild
              /\ \/ gate.member.roles \cap gate.staffRoleIds # {}
                 \/ gate.staffRoleIds = {} /\ gate.member.manageGuild
        /\ gate.pc = "refused" => gate.reply # "none" /\ ~gate.effect
        /\ gate.pc \in {"admitted", "ran"} => gate.reply = "none"

\* A holder of ManageGuild without the configured staff role has been refused
\* a staff button.
C37_Witness ==
    /\ gate.pc = "refused"
    /\ gate.reply = "staffOnly"
    /\ gate.interaction.customId = "take_report_"
    /\ gate.staffRoleIds = {"r1"}
    /\ gate.member.manageGuild
    /\ gate.member.roles = {"r2"}

\* ======================================================== the welcome dedup
\* guildMemberAdd.ts.  The clock of this part counts ticks of sixty seconds:
\* the entry of the cache lives for WELCOME_DEDUP_TTL_MS, one tick, and the
\* look-back into the channel accepts messages of the last
\* WELCOME_MESSAGE_DEDUP_WINDOW_MS, one tick.  welcomeDedupCache is
\* welcome.maps, the guilds that have an inner map, and welcome.timeouts, the
\* entries of the inner maps, each with the time its timeout is due.
WELCOME_DEDUP_TTL == 1
WELCOME_MESSAGE_DEDUP_WINDOW == 1
WelcomeKeys == {<<"g1", "u1">>, <<"g1", "u2">>, <<"g2", "u1">>}
Timeouts ==
    {[guildId |-> key[1], userId |-> key[2], due |-> due] :
        key \in WelcomeKeys, due \in 0..(MaxClock + WELCOME_DEDUP_TTL)}

TimeoutsOf(guildId, userId) ==
    {t \in welcome.timeouts : t.guildId = guildId /\ t.userId = userId}

HasRecentWelcome(guildId, userId) ==
    guildId \in welcome.maps /\ TimeoutsOf(guildId, userId) # {}

\* markRecentWelcome, were its timeout to have no delay.
MarkRecentWelcomeNoDelay(guildId, userId) ==
    [welcome EXCEPT
        !.maps = @ \cup {guildId},
        !.timeouts = (@ \ TimeoutsOf(guildId, userId)) \cup
                     {[guildId |-> guildId, userId |-> userId,
                       due |-> welcome.now]}]

\* markRecentWelcome: the inner map is created when missing, a timeout of the
\* same member is cleared, the new one is the entry.
MarkRecentWelcome(guildId, userId) ==
    [welcome EXCEPT
        !.maps = @ \cup {guildId},
        !.timeouts = (@ \ TimeoutsOf(guildId, userId)) \cup
                     {[guildId |-> guildId, userId |-> userId,
                       due |-> welcome.now + WELCOME_DEDUP_TTL]}]

\* guildMemberAdd is emitted: the handler runs to its first await, that is,
\* it returns on a recent welcome and marks the member otherwise.
MemberJoins(guildId, userId) ==
    /\ Len(welcome.joins) < MaxJoins
    /\ welcome.now <= MaxClock
    /\ LET join == [guildId |-> guildId, userId |-> userId,
                    at |-> welcome.now, sentAt |-> 0,
                    pc |-> IF HasRecentWelcome(guildId, userId)
                           THEN "duplicate" ELSE "config"]
       IN  IF HasRecentWelcome(guildId, userId)
           THEN welcome' = [welcome EXCEPT !.joins = Append(@, join)]
           ELSE welcome' = [MarkRecentWelcome(guildId, userId)
                               EXCEPT !.joins = Append(@, join)]
    /\ UNCHANGED <<ledgerVars, schedVars, reportVars, ticketVars, queryVars,
                   channel, paging, chunker, gate, purge>>

\* getWelcomeConfig and the fetch of the configured channel resolve.
GetWelcomeConfig(j, configured) ==
    /\ j \in DOMAIN welcome.joins
    /\ welcome.joins[j].pc = "config"
    /\ welcome' = [welcome EXCEPT
           !.joins[j].pc = IF configured THEN "lookback" ELSE "unconfigured"]
    /\ UNCHANGED <<ledgerVars, schedVars, reportVars, ticketVars, queryVars,
                   channel, paging, chunker, gate, purge>>

\* A welcome to the member, of the window, is among the ten latest messages
\* of the channel (inView tells whether the fetch succeeded and no more than
\* nine messages followed it).
RecentWelcomeMessage(j, inView) ==
    /\ inView
    /\ \E k \in DOMAIN welcome.joins :
          /\ welcome.joins[k].pc = "sent"
          /\ welcome.joins[k].guildId = welcome.joins[j].guildId
          /\ welcome.joins[k].userId = welcome.joins[j].userId
          /\ welcome.now - welcome.joins[k].sentAt <= WELCOME_MESSAGE_DEDUP_WINDOW

HasRecentWelcomeMessage(j, inView) ==
    /\ j \in DOMAIN welcome.joins
    /\ welcome.joins[j].pc = "lookback"
    /\ welcome' = [welcome EXCEPT
           !.joins[j].pc = IF RecentWelcomeMessage(j, inView)
                           THEN "omitted" ELSE "send"]
    /\ UNCHANGED <<ledgerVars, schedVars, reportVars, ticketVars, queryVars,
                   channel, paging, chunker, gate, purge>>

\* textChannel.send resolves.
SendWelcome(j) ==
    /\ j \in DOMAIN welcome.joins
    /\ welcome.joins[j].pc = "send"
    /\ welcome' = [welcome EXCEPT !.joins[j].pc = "sent",
                                  !.joins[j].sentAt = welcome.now]
    /\ UNCHANGED <<ledgerVars, schedVars, reportVars, ticketVars, queryVars,
                   channel, paging, chunker, gate, purge>>

\* The callback of a timeout, were it to leave the inner map in the cache.
WelcomeTimeoutKeepsMap(t) ==
    /\ t \in welcome.timeouts
    /\ t.due <= welcome.now
    /\ welcome' = [welcome EXCEPT !.timeouts = @ \ {t}]
    /\ UNCHANGED <<ledgerVars, schedVars, reportVars, ticketVars, queryVars,
                   channel, paging, chunker, gate, purge>>

\* The callback of a timeout that is due: the entry is deleted, and the inner
\* map with it when this was its last entry.
WelcomeTimeout(t) ==
    /\ t \in welcome.timeouts
    /\ t.due <= welcome.now
    /\ LET left == welcome.timeouts \ TimeoutsOf(t.guildId, t.userId)
       IN  welcome' = [welcome EXCEPT
               !.timeouts = left,
               !.maps = IF \E o \in left : o.guildId = t.guildId
                        THEN @ ELSE @ \ {t.guildId}]
    /\ UNCHANGED <<ledgerVars, schedVars, reportVars, ticketVars, queryVars,
                   channel, paging, chunker, gate, purge>>

\* Sixty seconds pass; a timeout that is due runs before the clock goes on.
WelcomeTick ==
    /\ welcome.now < MaxClock + WELCOME_DEDUP_TTL
    /\ \A t \in welcome.timeouts : t.due > welcome.now
    /\ welcome' = [welcome EXCEPT !.now = @ + 1]
    /\ UNCHANGED <<ledgerVars, schedVars, reportVars, ticketVars, queryVars,
                   channel, paging, chunker, gate, purge>>

WelcomeNext ==
    \/ \E key \in WelcomeKeys : MemberJoins(key[1], key[2])
    \/ \E j \in 1..MaxJoins, configured \in BOOLEAN : GetWelcomeConfig(j, configured)
    \/ \E j \in 1..MaxJoins, inView \in BOOLEAN : HasRecentWelcomeMessage(j, inView)
    \/ \E j \in 1..MaxJoins : SendWelcome(j)
    \/ \E t \in Timeouts : WelcomeTimeout(t)
    \/ WelcomeTick

SpecWelcome == Init /\ [][WelcomeNext]_vars

\* The timers of the platform run their callbacks and the clock goes on.
SpecWelcomeLive ==
    /\ Init
    /\ [][WelcomeNext]_vars
    /\ WF_vars(\E t \in Timeouts : WelcomeTimeout(t))
    /\ WF_vars(WelcomeTick)

\* The joins of a member that made a mark, and the welcomes sent for the
\* joins that arrived within the time to live of join i.
Marking(j) == welcome.joins[j].pc # "duplicate"
SameMember(i, j) ==
    /\ welcome.joins[i].guildId = welcome.joins[j].guildId
    /\ welcome.joins[i].userId = welcome.joins[j].userId
WelcomesWithin(i) ==
    {j \in DOMAIN welcome.joins :
        /\ SameMember(i, j)
        /\ j >= i
        /\ welcome.joins[j].at < welcome.joins[i].at + WELCOME_DEDUP_TTL
        /\ welcome.joins[j].pc = "sent"}

\* C38: of the joins of one member of one guild that arrive within the time
\* to live of the mark the first of them made, at most one is welcomed.
C38_OneWelcomePerTtl ==
    \A i \in DOMAIN welcome.joins :
        Marking(i) => Cardinality(WelcomesWithin(i)) <= 1

\* Two joins of the same member within the time to live, handled at the same
\* time; the first has been welcomed, the second was a duplicate.
C38_Witness ==
    /\ Len(welcome.joins) >= 2
    /\ SameMember(1, 2)
    /\ welcome.joins[2].at < welcome.joins[1].at + WELCOME_DEDUP_TTL
    /\ welcome.joins[1].pc = "sent"
    /\ welcome.joins[1].sentAt > welcome.joins[2].at
    /\ welcome.joins[2].pc = "duplicate"

\* C40: an entry of the cache is never older than its time to live and is
\* removed in the end (whatever has been marked, the cache is empty again
\* later); no guild keeps an empty inner map; a join is taken for a duplicate
\* only within the time to live of a join that made a mark.
C40_EntriesExpire ==
    /\ [](\A t \in welcome.timeouts :
            welcome.now <= t.due /\ t.due <= welcome.now + WELCOME_DEDUP_TTL)
    /\ [](\A guildId \in welcome.maps :
            \E t \in welcome.timeouts : t.guildId = guildId)
    /\ [](\A j \in DOMAIN welcome.joins :
            ~Marking(j) =>
                \E i \in 1..(j - 1) :
                    /\ SameMember(i, j)
                    /\ Marking(i)
                    /\ welcome.joins[j].at <= welcome.joins[i].at + WELCOME_DEDUP_TTL)
    /\ []<>(welcome.timeouts = {})

\* A member joined, the entry expired, the member joined again and was not
\* taken for a duplicate; that entry expired too and the cache is empty.
C40_Witness ==
    /\ Len(welcome.joins) = 2
    /\ SameMember(1, 2)
    /\ Marking(1)
    /\ Marking(2)
    /\ welcome.joins[2].at >= welcome.joins[1].at + WELCOME_DEDUP_TTL
    /\ welcome.timeouts = {}
    /\ welcome.maps = {}

\* ============================================================ clear-channel
\* deleteAllMessages of clear-channel.ts.  The channel is purge.content, its
\* messages newest first, each with its id and whether it is older than
\* fourteen days.  A fetch returns FetchLimit messages, two, which stands for
\* the hundred of the code.  The two counts stop at MaxCount, above what any
\* run that deletes or fails every message once can reach.
FetchLimit == 2
MaxCount == 2 * MaxMessages + 2
Contents == UNION {[1..n -> BOOLEAN] : n \in 0..MaxMessages}
Count(n) == IF n > MaxCount THEN MaxCount ELSE n

SelectOld(seq, old) == SelectSeq(seq, LAMBDA m : m.old = old)
Without(seq, ids) == SelectSeq(seq, LAMBDA m : m.id \notin ids)

\* deleteAllMessages(channel) is called: nothing deleted, nothing failed.
DeleteAllMessages(olds) ==
    /\ purge.pc \in {"idle", "done"}
    /\ purge' = [NoPurge EXCEPT
                    !.pc = "fetch",
                    !.content = [k \in 1..Len(olds) |->
                                    [id |-> k, old |-> olds[k]]]]
    /\ UNCHANGED <<ledgerVars, schedVars, reportVars, ticketVars, queryVars,
                   channel, paging, chunker, gate, welcome>>

\* channel.messages.fetch({ limit: 100 }) resolves; an empty page ends the
\* loop.
FetchMessages ==
    /\ purge.pc = "fetch"
    /\ LET messages == SubSeq(purge.content, 1,
                              IF Len(purge.content) < FetchLimit
                              THEN Len(purge.content) ELSE FetchLimit)
       IN  purge' = [purge EXCEPT
               !.messages = messages,
               !.fetched = @ \cup {messages[k].id : k \in 1..Len(messages)},
               !.i = 0,
               !.pc = IF Len(messages) = 0 THEN "done" ELSE "bulk"]
    /\ UNCHANGED <<ledgerVars, schedVars, reportVars, ticketVars, queryVars,
                   channel, paging, chunker, gate, welcome>>

\* The fetch rejects: the outer catch ends the loop.
FetchMessagesFail ==
    /\ purge.pc = "fetch"
    /\ purge' = [purge EXCEPT !.pc = "done"]
    /\ UNCHANGED <<ledgerVars, schedVars, reportVars, ticketVars, queryVars,
                   channel, paging, chunker, gate, welcome>>

\* bulkDelete of the messages of the page younger than fourteen days, when
\* there is one: they are gone and counted as deleted, or the call throws and
\* they are counted as failed.
BulkDelete(throws) ==
    /\ purge.pc = "bulk"
    /\ LET messagesToDelete == SelectOld(purge.messages, FALSE)
           ids == {messagesToDelete[k].id : k \in 1..Len(messagesToDelete)}
       IN  purge' =
             IF Len(messagesToDelete) = 0
             THEN [purge EXCEPT !.pc = "old"]
             ELSE IF throws
             THEN [purge EXCEPT
                      !.pc = "old",
                      !.failed = Count(@ + Len(messagesToDelete))]
             ELSE [purge EXCEPT
                      !.pc = "old",
                      !.content = Without(@, ids),
                      !.deleted = Count(@ + Len(messagesToDelete))]
    /\ UNCHANGED <<ledgerVars, schedVars, reportVars, ticketVars, queryVars,
                   channel, paging, chunker, gate, welcome>>

\* oldMsg.delete() for the next old message of the page.
DeleteOldMessage(throws) ==
    /\ purge.pc = "old"
    /\ LET oldMessages == SelectOld(purge.messages, TRUE)
       IN  /\ purge.i < Len(oldMessages)
           /\ purge' =
                IF throws
                THEN [purge EXCEPT !.i = @ + 1, !.failed = Count(@ + 1)]
                ELSE [purge EXCEPT
                         !.i = @ + 1,
                         !.content = Without(@, {oldMessages[purge.i + 1].id}),
                         !.deleted = Count(@ + 1)]
    /\ UNCHANGED <<ledgerVars, schedVars, reportVars, ticketVars, queryVars,
                   channel, paging, chunker, gate, welcome>>

\* The end of a round: a page that was not full ends the loop, a full one
\* is followed, after the pause, by the next fetch.
EndRound ==
    /\ purge.pc = "old"
    /\ purge.i = Len(SelectOld(purge.messages, TRUE))
    /\ purge' = [purge EXCEPT
           !.pc = IF Len(purge.messages) < FetchLimit THEN "done" ELSE "fetch"]
    /\ UNCHANGED <<ledgerVars, schedVars, reportVars, ticketVars, queryVars,
                   channel, paging, chunker, gate, welcome>>

PurgeNext ==
    \/ /\ purge.pc \in {"idle", "done"}
       /\ \E olds \in Contents : DeleteAllMessages(olds)
    \/ FetchMessages
    \/ FetchMessagesFail
    \/ \E throws \in BOOLEAN : BulkDelete(throws)
    \/ \E throws \in BOOLEAN : DeleteOldMessage(throws)
    \/ EndRound

SpecPurge == Init /\ [][PurgeNext]_vars

\* The calls of the platform resolve or reject: every round goes on.
SpecPurgeLive == Init /\ [][PurgeNext]_vars /\ WF_vars(PurgeNext)

\* C39: deleteAllMessages returns whatever the channel holds and whichever
\* deletions fail, and at its return deleted + failed is the number of the
\* messages it fetched.
C39_PurgeReturnsAndCountsOnce ==
    /\ [](purge.pc = "fetch" => <>(purge.pc = "done"))
    /\ [](purge.pc = "done" =>
            purge.deleted + purge.failed = Cardinality(purge.fetched))

\* ============================================================ the scheduler
\* Durations are counted in seconds (the code counts milliseconds; every
\* accepted duration is a whole number of seconds).  One tick of the clock is
\* ten days, so that the accepted durations reach both sides of the largest
\* delay a timer of the platform represents.
TickS == 10 * 24 * 60 * 60

\* duration.ts: MAX_DURATION_MS, in seconds
MaxDurationS == 30 * 24 * 60 * 60

\* setTimeout: a delay above 2^31 - 1 ms is replaced by 1 ms.
TimeoutMaxS == 2147483647 \div 1000

\* The durations parseDurationInput accepts, in ticks (0: no duration given).
Durations == {d \in {1, 3} : d * TickS > 0 /\ d * TickS <= MaxDurationS}

\* The durations the moderators of the scheduler runs choose from.
SchedDurations == {d \in Durations : d < 2}

\* UNIT_MAP, in seconds.
UnitS == [s |-> 1, m |-> 60, h |-> 60 * 60, d |-> 24 * 60 * 60,
          w |-> 7 * 24 * 60 * 60]

\* The duration option: absent, or an amount and a unit letter.
NoDuration == [amount |-> 0, unit |-> "none"]
DurationInputs == {NoDuration} \cup [amount : {0, 10, 31}, unit : {"d", "x"}]
SchedDurationInputs ==
    {NoDuration} \cup {[amount |-> 10 * d, unit |-> "d"] : d \in SchedDurations}

\* The cap applied with >= : thirty days themselves are refused (what the
\* code does not do).
ParseDurationInputBelowCap(in) ==
    IF in.unit \notin DOMAIN UnitS THEN 0
    ELSE LET durationS == in.amount * UnitS[in.unit]
         IN  IF durationS <= 0 \/ durationS >= MaxDurationS THEN 0
             ELSE durationS

\* parseDurationInput, in seconds; 0 stands for null.
ParseDurationInput(in) ==
    IF in.unit \notin DOMAIN UnitS THEN 0
    ELSE LET durationS == in.amount * UnitS[in.unit]
         IN  IF durationS <= 0 \/ durationS > MaxDurationS THEN 0
             ELSE durationS

\* What a command keeps of its duration option: 0 without one, -1 when it is
\* refused, otherwise its length in ticks.
DurationOf(in) ==
    IF in = NoDuration THEN 0
    ELSE IF ParseDurationInput(in) = 0 THEN -1
    ELSE ParseDurationInput(in) \div TickS

\* ------------------------------------------------------- the duration codec
\* The characters the raw inputs are written with: digits, unit letters in
\* both cases, a letter that is no unit, and the blank.
Digits == <<"0", "1", "3", "5">>
DigitValue == [c \in {"0", "1", "3", "5"} |->
                  CASE c = "0" -> 0 [] c = "1" -> 1 [] c = "3" -> 3 [] c = "5" -> 5]
Alphabet == {"0", "1", "3", "5", "m", "d", "D", "x", " "}
RawInputs == UNION {[1..n -> Alphabet] : n \in 0..MaxLen}

\* String.prototype.trim: the blanks at both ends are dropped.
RECURSIVE TrimStart(_)
TrimStart(str) ==
    IF str # <<>> /\ Head(str) = " " THEN TrimStart(Tail(str)) ELSE str

RECURSIVE TrimEnd(_)
TrimEnd(str) ==
    IF str # <<>> /\ str[Len(str)] = " "
    THEN TrimEnd(SubSeq(str, 1, Len(str) - 1)) ELSE str

Trim(str) == TrimEnd(TrimStart(str))

\* String.prototype.toLowerCase, character by character.
LowerChar(c) == IF c = "D" THEN "d" ELSE c
ToLowerCase(str) == [i \in 1..Len(str) |-> LowerChar(str[i])]

\* Number(match[1]) of a run of digits.
RECURSIVE NumberOf(_)
NumberOf(digits) ==
    IF digits = <<>> THEN 0
    ELSE 10 * NumberOf(SubSeq(digits, 1, Len(digits) - 1))
            + DigitValue[digits[Len(digits)]]

\* input.match(/^(\d+)(s|m|h|d|w)$/i): the amount and the unit, or no match.
NoMatch == [amount |-> -1, unit |-> "none"]
Match(input) ==
    IF /\ Len(input) >= 2
       /\ \A i \in 1..(Len(input) - 1) : input[i] \in DOMAIN DigitValue
       /\ LowerChar(input[Len(input)]) \in DOMAIN UnitS
    THEN [amount |-> NumberOf(SubSeq(input, 1, Len(input) - 1)),
          unit |-> LowerChar(input[Len(input)])]
    ELSE NoMatch

\* parseDurationInput(raw), in seconds; 0 stands for null.
ParseDuration(raw) ==
    LET match == Match(ToLowerCase(Trim(raw)))
    IN  IF match = NoMatch THEN 0 ELSE ParseDurationInput(match)

\* formatDuration with the seconds rounded to the nearest instead of cut
\* (what the code does not do).
FormatDurationRounded(durationMs) ==
    LET seconds == (durationMs + 500) \div 1000
        minutes == seconds \div 60
        hours == minutes \div 60
        days == hours \div 24
        weeks == days \div 7
    IN  IF seconds < 60 THEN <<seconds, "s">>
        ELSE IF minutes < 60 THEN <<minutes, "m">>
        ELSE IF hours < 24 THEN <<hours, "h">>
        ELSE IF days < 7 THEN <<days, "d">>
        ELSE <<weeks, "w">>

\* formatDuration(durationMs): the count and the letter of the text.
FormatDuration(durationMs) ==
    LET seconds == durationMs \div 1000
        minutes == seconds \div 60
        hours == minutes \div 60
        days == hours \div 24
        weeks == days \div 7
    IN  IF seconds < 60 THEN <<seconds, "s">>
        ELSE IF minutes < 60 THEN <<minutes, "m">>
        ELSE IF hours < 24 THEN <<hours, "h">>
        ELSE IF days < 7 THEN <<days, "d">>
        ELSE <<weeks, "w">>

\* The millisecond values formatDuration is exercised on: up to three of
\* every unit, one millisecond less and more, half a second more, and a
\* minute and a half.
FormatInputs ==
    {ms \in {k * 1000 * UnitS[u] + e :
                k \in 0..3, u \in DOMAIN UnitS, e \in {-1, 0, 1, 500}} : ms >= 0}
        \cup {90000}

\* parseDurationInput is applied to a raw input.
Parse(raw) ==
    /\ codec.op = "none"
    /\ codec' = [op |-> "parse", raw |-> raw, ms |-> 0,
                 parsed |-> ParseDuration(raw), text |-> <<>>]
    /\ UNCHANGED <<ledgerVars, schedVars, reportVars, ticketVars, toolVars, query, stats>>

\* formatDuration is applied to a millisecond value.
Format(ms) ==
    /\ codec.op = "none"
    /\ codec' = [op |-> "format", raw |-> <<>>, ms |-> ms, parsed |-> 0,
                 text |-> FormatDuration(ms)]
    /\ UNCHANGED <<ledgerVars, schedVars, reportVars, ticketVars, toolVars, query, stats>>

\* One application of one of the two functions.
CodecNext ==
    \/ codec.op = "none" /\ \E raw \in RawInputs : Parse(raw)
    \/ codec.op = "none" /\ \E ms \in FormatInputs : Format(ms)

SpecCodec == Init /\ [][CodecNext]_vars

\* A comparison of ranks that lets an equal rank through (what the code does
\* not do).
EnsureHierarchyPeersPass(moderator, target) ==
    IF ~target.member THEN TRUE
    ELSE IF target.id = moderator.id THEN FALSE
    ELSE IF target.id = GuildOwner THEN FALSE
    ELSE moderator.rank >= target.rank

\* ensureHierarchy: true for no member at all, false for the moderator
\* themself and for the owner, otherwise the moderator's highest role must be
\* above the target's.
EnsureHierarchy(moderator, target) ==
    IF ~target.member THEN TRUE
    ELSE IF target.id = moderator.id THEN FALSE
    ELSE IF target.id = GuildOwner THEN FALSE
    ELSE moderator.rank > target.rank

RejectedCmd(op, target, dur) ==
    [pc |-> "rejected", op |-> op, user |-> target.id, dur |-> dur, ep |-> 0,
     expiresAt |-> 0]

\* expiresAt = new Date(Date.now() + parsed), in ticks; 0 without a duration.
ExpiresAt(d) == IF d > 0 THEN now + d ELSE 0

\* The tick at which setTimeout(callback, durationMs) runs the callback,
\* counted from the call.
TimerDelay(d) == IF d * TickS > TimeoutMaxS THEN 0 ELSE d

KindOf(op) == IF op = "unmute" THEN "mute" ELSE op
KeyOf(c) == <<cmd[c].user, KindOf(cmd[c].op)>>
LiftType(kind) == IF kind = "mute" THEN "unmute" ELSE "unban"

\* An insert that replaces the stored case of the same guild, member and
\* type, as an upsert would (what the code does not do).
CreateModerationCaseUpsert(payload) ==
    {c \in cases : ~(/\ c.guildId = payload.guildId
                     /\ c.userId = payload.userId
                     /\ c.type = payload.type)}
        \cup {CreatePayload(payload, ShouldGenerateCaseId(FALSE), NoCaseId)}

\* createModerationCase(payload) without options: no caseId, one insert.
CreateModerationCaseNoId(payload) ==
    cases \cup {CreatePayload(payload, ShouldGenerateCaseId(FALSE), NoCaseId)}

CasePayload(u, type, automated, by) ==
    [guildId |-> SchedGuild, userId |-> u, type |-> type, caseId |-> NoCaseId,
     automated |-> automated, by |-> by]

\* setTimeout(..., durationMs) when expiresAt && durationMs.
Schedule(c) ==
    IF cmd[c].dur > 0
    THEN [timer EXCEPT ![c] = [NoTimer EXCEPT !.pc = "pending",
                                              !.fireAt = now + TimerDelay(cmd[c].dur)]]
    ELSE timer

\* A manual reversal at this moment precedes the expiry of these timers.
MarkCancelled(key) ==
    [s \in CmdIds |->
        IF /\ timer[s].pc = "pending" /\ now < timer[s].fireAt
           /\ cmd[s].op \in Kinds /\ KeyOf(s) = key
        THEN [timer[s] EXCEPT !.cancelled = TRUE]
        ELSE timer[s]]

\* /mute: a bot, a failed ensureHierarchy, a member that cannot be fetched,
\* "The member is already muted." and a refused duration each end the
\* command with a reply; otherwise roles.add is issued.
MuteStart(c, target, durIn) ==
    /\ cmd[c].pc = "idle"
    /\ \A b \in CmdIds : b < c => cmd[b].pc # "idle"
    /\ cmd' = [cmd EXCEPT ![c] =
          IF \/ target.bot
             \/ ~EnsureHierarchy(Moderator, target)
             \/ ~target.member
             \/ sanctioned[<<target.id, "mute">>]
          THEN RejectedCmd("mute", target, 0)
          ELSE IF DurationOf(durIn) < 0
          THEN RejectedCmd("mute", target, -1)
          ELSE [pc |-> "apply", op |-> "mute", user |-> target.id,
                dur |-> DurationOf(durIn), ep |-> 0,
                expiresAt |-> ExpiresAt(DurationOf(durIn))]]
    /\ UNCHANGED <<reportVars, ticketVars, queryVars, toolVars, notice, ledgerVars, sanctioned, episode, now, timer, lifts, failedEps>>

\* mute.ts: targetMember.roles.add resolves.
MuteApply(c) ==
    /\ cmd[c].op = "mute" /\ cmd[c].pc = "apply"
    /\ sanctioned' = [sanctioned EXCEPT ![KeyOf(c)] = TRUE]
    /\ episode' = [episode EXCEPT ![KeyOf(c)] =
                      IF sanctioned[KeyOf(c)] THEN @ ELSE @ + 1]
    /\ cmd' = [cmd EXCEPT ![c].pc = "record", ![c].ep = episode'[KeyOf(c)]]
    /\ UNCHANGED <<reportVars, ticketVars, queryVars, toolVars, notice, ledgerVars, now, timer, lifts, failedEps>>

\* mute.ts: createModerationCase resolves, then the timer is armed.
MuteRecord(c) ==
    /\ cmd[c].op = "mute" /\ cmd[c].pc = "record"
    /\ cases' = CreateModerationCaseNoId(
                    CasePayload(cmd[c].user, "mute", FALSE, <<"cmd", c>>))
    /\ timer' = Schedule(c)
    /\ cmd' = [cmd EXCEPT ![c].pc = "done"]
    /\ UNCHANGED <<reportVars, ticketVars, queryVars, toolVars, notice, counters, call, allocLog, sanctioned, episode, now, lifts,
                   failedEps>>

\* /ban: a bot, a fetched member that fails ensureHierarchy and a refused
\* duration each end the command with a reply; otherwise
\* createModerationCase resolves (the case is written before the ban).
BanStart(c, target, durIn) ==
    /\ cmd[c].pc = "idle"
    /\ \A b \in CmdIds : b < c => cmd[b].pc # "idle"
    /\ IF target.bot \/ (target.member /\ ~EnsureHierarchy(Moderator, target))
       THEN /\ cmd' = [cmd EXCEPT ![c] = RejectedCmd("ban", target, 0)]
            /\ UNCHANGED cases
       ELSE IF DurationOf(durIn) < 0
       THEN /\ cmd' = [cmd EXCEPT ![c] = RejectedCmd("ban", target, -1)]
            /\ UNCHANGED cases
       ELSE /\ cases' = CreateModerationCaseNoId(
                            CasePayload(target.id, "ban", FALSE, <<"cmd", c>>))
            /\ cmd' = [cmd EXCEPT ![c] = [pc |-> "apply", op |-> "ban",
                                          user |-> target.id,
                                          dur |-> DurationOf(durIn),
                                          ep |-> 0,
                                          expiresAt |->
                                              ExpiresAt(DurationOf(durIn))]]
    /\ UNCHANGED <<reportVars, ticketVars, queryVars, toolVars, notice, counters, call, allocLog, sanctioned, episode, now, timer,
                   lifts, failedEps>>

\* ban.ts: guild.members.ban resolves, then the timer is armed.
BanApply(c) ==
    /\ cmd[c].op = "ban" /\ cmd[c].pc = "apply"
    /\ sanctioned' = [sanctioned EXCEPT ![KeyOf(c)] = TRUE]
    /\ episode' = [episode EXCEPT ![KeyOf(c)] =
                      IF sanctioned[KeyOf(c)] THEN @ ELSE @ + 1]
    /\ timer' = Schedule(c)
    /\ cmd' = [cmd EXCEPT ![c].pc = "done", ![c].ep = episode'[KeyOf(c)]]
    /\ UNCHANGED <<reportVars, ticketVars, queryVars, toolVars, notice, ledgerVars, now, lifts, failedEps>>

\* /unmute: the members are fetched; "The member does not have the mute role
\* applied." ends the command, otherwise roles.remove is issued.
UnmuteStart(c, u) ==
    /\ cmd[c].pc = "idle"
    /\ \A b \in CmdIds : b < c => cmd[b].pc # "idle"
    /\ cmd' = [cmd EXCEPT ![c] = [pc |-> IF sanctioned[<<u, "mute">>]
                                         THEN "apply" ELSE "rejected",
                                  op |-> "unmute", user |-> u, dur |-> 0,
                                  ep |-> 0, expiresAt |-> 0]]
    /\ UNCHANGED <<reportVars, ticketVars, queryVars, toolVars, notice, ledgerVars, sanctioned, episode, now, timer, lifts, failedEps>>

\* unmute: targetMember.roles.remove resolves (removing a role the member
\* no longer has succeeds as well).  No timer is looked up or cleared.
UnmuteLift(c) ==
    /\ cmd[c].op = "unmute" /\ cmd[c].pc = "apply"
    /\ sanctioned' = [sanctioned EXCEPT ![KeyOf(c)] = FALSE]
    /\ lifts' = lifts \cup {[user |-> cmd[c].user, kind |-> "mute",
                             ep |-> episode[KeyOf(c)], by |-> c, auto |-> FALSE]}
    /\ timer' = MarkCancelled(KeyOf(c))
    /\ cmd' = [cmd EXCEPT ![c].pc = "record", ![c].ep = episode[KeyOf(c)]]
    /\ UNCHANGED <<reportVars, ticketVars, queryVars, toolVars, notice, ledgerVars, episode, now, failedEps>>

\* unmute: createModerationCase resolves.
UnmuteRecord(c) ==
    /\ cmd[c].op = "unmute" /\ cmd[c].pc = "record"
    /\ cases' = CreateModerationCaseNoId(
                    CasePayload(cmd[c].user, "unmute", FALSE, <<"cmd", c>>))
    /\ cmd' = [cmd EXCEPT ![c].pc = "done"]
    /\ UNCHANGED <<reportVars, ticketVars, queryVars, toolVars, notice, counters, call, allocLog, sanctioned, episode, now, timer,
                   lifts, failedEps>>

\* A ban is lifted outside the bot (the repository has no unban command; the
\* callback's isStillBanned test expects this).
ExternalUnban(u) ==
    /\ sanctioned[<<u, "ban">>]
    /\ sanctioned' = [sanctioned EXCEPT ![<<u, "ban">>] = FALSE]
    /\ lifts' = lifts \cup {[user |-> u, kind |-> "ban",
                             ep |-> episode[<<u, "ban">>], by |-> 0,
                             auto |-> FALSE]}
    /\ timer' = MarkCancelled(<<u, "ban">>)
    /\ UNCHANGED <<reportVars, ticketVars, queryVars, toolVars, notice, ledgerVars, episode, now, cmd, failedEps>>

\* A callback that goes from its verification to the case record, the lift
\* left for later (what the code does not do).
TimerFetchRecordsFirst(s) ==
    /\ timer[s].pc = "pending" /\ now >= timer[s].fireAt
    /\ timer' = [timer EXCEPT ![s].saw = sanctioned[KeyOf(s)],
                              ![s].pc = IF sanctioned[KeyOf(s)]
                                        THEN "record" ELSE "done",
                              ![s].outcome = IF sanctioned[KeyOf(s)]
                                             THEN "none" ELSE "skipped"]
    /\ UNCHANGED <<reportVars, ticketVars, queryVars, toolVars, notice, ledgerVars, sanctioned, episode, now, cmd, lifts, failedEps>>

\* The callback runs: guild, role and member (or the ban list) are fetched
\* and the sanction is verified; "return" when it is gone.
TimerFetch(s) ==
    /\ timer[s].pc = "pending" /\ now >= timer[s].fireAt
    /\ timer' = [timer EXCEPT ![s].saw = sanctioned[KeyOf(s)],
                              ![s].pc = IF sanctioned[KeyOf(s)]
                                        THEN "lift" ELSE "done",
                              ![s].outcome = IF sanctioned[KeyOf(s)]
                                             THEN "none" ELSE "skipped"]
    /\ UNCHANGED <<reportVars, ticketVars, queryVars, toolVars, notice, ledgerVars, sanctioned, episode, now, cmd, lifts, failedEps>>

\* member.roles.remove / members.unban resolves.  Removing a role that is
\* already gone resolves too; unbanning a user who is not banned does not.
TimerLift(s) ==
    /\ timer[s].pc = "lift"
    /\ cmd[s].op = "ban" => sanctioned[KeyOf(s)]
    /\ sanctioned' = [sanctioned EXCEPT ![KeyOf(s)] = FALSE]
    /\ lifts' = lifts \cup {[user |-> cmd[s].user, kind |-> cmd[s].op,
                             ep |-> episode[KeyOf(s)], by |-> s, auto |-> TRUE]}
    /\ timer' = [timer EXCEPT ![s].pc = "record", ![s].ep = episode[KeyOf(s)],
                              ![s].attempts = @ + 1]
    /\ UNCHANGED <<reportVars, ticketVars, queryVars, toolVars, notice, ledgerVars, episode, now, cmd, failedEps>>

\* A rejected lift whose error is swallowed, the callback going on (what the
\* code does not do).
TimerLiftFailGoesOn(s) ==
    /\ timer[s].pc = "lift"
    /\ timer' = [timer EXCEPT ![s].pc = "record", ![s].outcome = "liftFailed",
                              ![s].ep = episode[KeyOf(s)],
                              ![s].attempts = @ + 1]
    /\ failedEps' = failedEps \cup {<<cmd[s].user, cmd[s].op, episode[KeyOf(s)]>>}
    /\ UNCHANGED <<reportVars, ticketVars, queryVars, toolVars, notice, ledgerVars, sanctioned, episode, now, cmd, lifts>>

\* member.roles.remove / members.unban rejects: the catch logs, the callback
\* ends.
TimerLiftFail(s) ==
    /\ timer[s].pc = "lift"
    /\ timer' = [timer EXCEPT ![s].pc = "done", ![s].outcome = "liftFailed",
                              ![s].ep = episode[KeyOf(s)],
                              ![s].attempts = @ + 1]
    /\ failedEps' = failedEps \cup {<<cmd[s].user, cmd[s].op, episode[KeyOf(s)]>>}
    /\ UNCHANGED <<reportVars, ticketVars, queryVars, toolVars, notice, ledgerVars, sanctioned, episode, now, cmd, lifts>>

\* createModerationCase({type: unmute | unban, metadata: {automated: true}}).
TimerRecord(s) ==
    /\ timer[s].pc = "record"
    /\ cases' = CreateModerationCaseNoId(
                    CasePayload(cmd[s].user, LiftType(cmd[s].op), TRUE,
                                <<"timer", s>>))
    /\ timer' = [timer EXCEPT ![s].pc = "notify"]
    /\ UNCHANGED <<reportVars, ticketVars, queryVars, toolVars, notice, counters, call, allocLog, sanctioned, episode, now, cmd,
                   lifts, failedEps>>

\* createModerationCase rejects in the callback: the catch logs, the callback
\* ends before its notifications.
TimerRecordFail(s) ==
    /\ timer[s].pc = "record"
    /\ timer' = [timer EXCEPT ![s].pc = "done", ![s].outcome = "recordFailed"]
    /\ UNCHANGED <<reportVars, ticketVars, queryVars, toolVars, notice, ledgerVars, sanctioned, episode, now, cmd, lifts, failedEps>>

\* sendModerationDm and logModerationAction, then the callback ends.
TimerNotify(s) ==
    /\ timer[s].pc = "notify"
    /\ timer' = [timer EXCEPT ![s].pc = "done", ![s].notifs = @ + 1,
                              ![s].outcome = IF @ = "none" THEN "ok" ELSE @]
    /\ UNCHANGED <<reportVars, ticketVars, queryVars, toolVars, notice, ledgerVars, sanctioned, episode, now, cmd, lifts, failedEps>>

\* Time passes.  A callback that is due runs, and its awaits resolve, within
\* the tick.
Tick ==
    /\ now < MaxTime
    /\ \A s \in CmdIds :
          /\ timer[s].pc \notin {"lift", "record", "notify"}
          /\ timer[s].pc = "pending" => now < timer[s].fireAt
    /\ now' = now + 1
    /\ UNCHANGED <<reportVars, ticketVars, queryVars, toolVars, notice, ledgerVars, sanctioned, episode, cmd, timer, lifts, failedEps>>

TimerNext ==
    \/ \E s \in CmdIds : TimerFetch(s)
    \/ \E s \in CmdIds : TimerLift(s)
    \/ \E s \in CmdIds : TimerLiftFail(s)
    \/ \E s \in CmdIds : TimerRecord(s)
    \/ \E s \in CmdIds : TimerNotify(s)
    \/ Tick

\* The mute role: /mute, /unmute and the callbacks /mute arms.
SchedNext ==
    \/ \E c \in CmdIds, target \in SchedTargets, durIn \in SchedDurationInputs :
          MuteStart(c, target, durIn)
    \/ \E c \in CmdIds : MuteApply(c)
    \/ \E c \in CmdIds : MuteRecord(c)
    \/ \E c \in CmdIds, u \in SchedUsers : UnmuteStart(c, u)
    \/ \E c \in CmdIds : UnmuteLift(c)
    \/ \E c \in CmdIds : UnmuteRecord(c)
    \/ TimerNext

SpecSched == Init /\ [][SchedNext]_vars

\* Bans: /ban, the callbacks it arms, and bans lifted outside the bot.
BanNext ==
    \/ \E c \in CmdIds, target \in SchedTargets, durIn \in SchedDurationInputs :
          BanStart(c, target, durIn)
    \/ \E c \in CmdIds : BanApply(c)
    \/ \E u \in SchedUsers : ExternalUnban(u)
    \/ TimerNext

SpecBan == Init /\ [][BanNext]_vars

\* Mutes and bans with every accepted duration of the clock: ten days, and
\* the thirty days of the cap.
ExpiryDurationInputs == {[amount |-> 10 * d, unit |-> "d"] : d \in Durations}
ExpiryNext ==
    \/ \E c \in CmdIds, target \in SchedTargets, durIn \in ExpiryDurationInputs :
          MuteStart(c, target, durIn)
    \/ \E c \in CmdIds : MuteApply(c)
    \/ \E c \in CmdIds : MuteRecord(c)
    \/ \E c \in CmdIds, target \in SchedTargets, durIn \in ExpiryDurationInputs :
          BanStart(c, target, durIn)
    \/ \E c \in CmdIds : BanApply(c)
    \/ TimerNext

SpecExpiry == Init /\ [][ExpiryNext]_vars

\* /kick: a bot, a member that cannot be fetched and a failed ensureHierarchy
\* each end the command with a reply; otherwise member.kick is issued.
KickStart(c, target) ==
    /\ cmd[c].pc = "idle"
    /\ \A b \in CmdIds : b < c => cmd[b].pc # "idle"
    /\ cmd' = [cmd EXCEPT ![c] =
          IF \/ target.bot
             \/ ~target.member
             \/ ~EnsureHierarchy(Moderator, target)
          THEN RejectedCmd("kick", target, 0)
          ELSE [pc |-> "apply", op |-> "kick", user |-> target.id,
                dur |-> 0, ep |-> 0, expiresAt |-> 0]]
    /\ UNCHANGED <<reportVars, ticketVars, queryVars, toolVars, notice, ledgerVars, sanctioned, episode, now, timer, lifts, failedEps>>

\* kick.ts: targetMember.kick resolves.
KickApply(c) ==
    /\ cmd[c].op = "kick" /\ cmd[c].pc = "apply"
    /\ sanctioned' = [sanctioned EXCEPT ![KeyOf(c)] = TRUE]
    /\ episode' = [episode EXCEPT ![KeyOf(c)] =
                      IF sanctioned[KeyOf(c)] THEN @ ELSE @ + 1]
    /\ cmd' = [cmd EXCEPT ![c].pc = "record", ![c].ep = episode'[KeyOf(c)]]
    /\ UNCHANGED <<reportVars, ticketVars, queryVars, toolVars, notice, ledgerVars, now, timer, lifts, failedEps>>

\* kick.ts: createModerationCase(..., {generateCaseId: false}) resolves.
KickRecord(c) ==
    /\ cmd[c].op = "kick" /\ cmd[c].pc = "record"
    /\ cases' = CreateModerationCaseNoId(
                    CasePayload(cmd[c].user, "kick", FALSE, <<"cmd", c>>))
    /\ cmd' = [cmd EXCEPT ![c].pc = "done"]
    /\ UNCHANGED <<reportVars, ticketVars, queryVars, toolVars, notice, counters, call, allocLog, sanctioned, episode, now, timer,
                   lifts, failedEps>>

\* The three sanction commands with every kind of request, well formed or
\* not, a duration being given: zero, ten or thirty-one days, or ten of an
\* unknown unit.
RequestDurations == {in \in DurationInputs : in.unit = "d" \/ in.amount = 10}
RequestNext ==
    \/ \E c \in CmdIds, target \in SanctionTargets, durIn \in RequestDurations :
          MuteStart(c, target, durIn)
    \/ \E c \in CmdIds : MuteApply(c)
    \/ \E c \in CmdIds : MuteRecord(c)
    \/ \E c \in CmdIds, target \in SanctionTargets, durIn \in RequestDurations :
          BanStart(c, target, durIn)
    \/ \E c \in CmdIds : BanApply(c)
    \/ \E c \in CmdIds, target \in SanctionTargets : KickStart(c, target)
    \/ \E c \in CmdIds : KickApply(c)
    \/ \E c \in CmdIds : KickRecord(c)

SpecRequest == Init /\ [][RequestNext]_vars

\* An await of the command rejects: nothing in execute catches it, the rest
\* of the command is skipped.
Thrown(c) == [cmd EXCEPT ![c].pc = "failed"]

\* mute.ts: targetMember.roles.add rejects.
MuteApplyFail(c) ==
    /\ cmd[c].op = "mute" /\ cmd[c].pc = "apply"
    /\ cmd' = Thrown(c)
    /\ UNCHANGED <<reportVars, ticketVars, queryVars, toolVars, notice, ledgerVars, sanctioned, episode, now, timer, lifts, failedEps>>

\* mute.ts: createModerationCase rejects, the role having been added; the
\* setTimeout that follows is not reached.
MuteRecordFail(c) ==
    /\ cmd[c].op = "mute" /\ cmd[c].pc = "record"
    /\ cmd' = Thrown(c)
    /\ UNCHANGED <<reportVars, ticketVars, queryVars, toolVars, notice, ledgerVars, sanctioned, episode, now, timer, lifts, failedEps>>

\* ban.ts: createModerationCase rejects, before anything else was done.
BanStartFail(c, target, durIn) ==
    /\ cmd[c].pc = "idle"
    /\ \A b \in CmdIds : b < c => cmd[b].pc # "idle"
    /\ ~(target.bot \/ (target.member /\ ~EnsureHierarchy(Moderator, target)))
    /\ DurationOf(durIn) >= 0
    /\ cmd' = [cmd EXCEPT ![c] = [pc |-> "failed", op |-> "ban",
                                  user |-> target.id,
                                  dur |-> DurationOf(durIn), ep |-> 0,
                                  expiresAt |-> ExpiresAt(DurationOf(durIn))]]
    /\ UNCHANGED <<reportVars, ticketVars, queryVars, toolVars, notice, ledgerVars, sanctioned, episode, now, timer, lifts, failedEps>>

\* ban.ts: guild.members.ban rejects, the case having been written; the
\* setTimeout that follows is not reached.
BanApplyFail(c) ==
    /\ cmd[c].op = "ban" /\ cmd[c].pc = "apply"
    /\ cmd' = Thrown(c)
    /\ UNCHANGED <<reportVars, ticketVars, queryVars, toolVars, notice, ledgerVars, sanctioned, episode, now, timer, lifts, failedEps>>

\* kick.ts: targetMember.kick rejects.
KickApplyFail(c) ==
    /\ cmd[c].op = "kick" /\ cmd[c].pc = "apply"
    /\ cmd' = Thrown(c)
    /\ UNCHANGED <<reportVars, ticketVars, queryVars, toolVars, notice, ledgerVars, sanctioned, episode, now, timer, lifts, failedEps>>

\* kick.ts: createModerationCase rejects, the member having been kicked.
KickRecordFail(c) ==
    /\ cmd[c].op = "kick" /\ cmd[c].pc = "record"
    /\ cmd' = Thrown(c)
    /\ UNCHANGED <<reportVars, ticketVars, queryVars, toolVars, notice, ledgerVars, sanctioned, episode, now, timer, lifts, failedEps>>

\* The three sanction commands, each of their enforcement calls and ledger
\* writes resolving or rejecting.
FailureNext ==
    \/ \E c \in CmdIds, target \in SchedTargets, durIn \in SchedDurationInputs :
          MuteStart(c, target, durIn)
    \/ \E c \in CmdIds : MuteApply(c)
    \/ \E c \in CmdIds : MuteApplyFail(c)
    \/ \E c \in CmdIds : MuteRecord(c)
    \/ \E c \in CmdIds : MuteRecordFail(c)
    \/ \E c \in CmdIds, target \in SchedTargets, durIn \in SchedDurationInputs :
          BanStart(c, target, durIn)
    \/ \E c \in CmdIds, target \in SchedTargets, durIn \in SchedDurationInputs :
          BanStartFail(c, target, durIn)
    \/ \E c \in CmdIds : BanApply(c)
    \/ \E c \in CmdIds : BanApplyFail(c)
    \/ \E c \in CmdIds, target \in SchedTargets : KickStart(c, target)
    \/ \E c \in CmdIds : KickApply(c)
    \/ \E c \in CmdIds : KickApplyFail(c)
    \/ \E c \in CmdIds : KickRecord(c)
    \/ \E c \in CmdIds : KickRecordFail(c)

SpecFailure == Init /\ [][FailureNext]_vars

\* sendModerationDm with its catch left out, a failed user.send leaving the
\* function as a rejection (what the code does not do).
SendModerationDmThrows(delivered) == IF delivered THEN "sent" ELSE "thrown"

\* sendModerationDm: user.send inside try; the catch logs and the function
\* resolves.
SendModerationDm(delivered) == IF delivered THEN "sent" ELSE "caught"

\* logModerationAction: channel.send inside try; the catch logs and the
\* function resolves.
LogModerationAction(delivered) == IF delivered THEN "sent" ELSE "caught"

\* How the two deliveries of one command or callback ended, taken together.
Notified(dm, log) ==
    IF "thrown" \in {dm, log} THEN "thrown"
    ELSE IF "caught" \in {dm, log} THEN "caught"
    ELSE "sent"

\* The tail of a command, after its reply: the DM (not awaited, with a
\* .catch) and the awaited logModerationAction.  Nothing follows them.
CommandNotify(c, dmDelivered, logDelivered) ==
    /\ cmd[c].pc = "done" /\ c \notin notice.told
    /\ notice' = [told |-> notice.told \cup {c}, of |-> "command",
                  result |-> Notified(SendModerationDm(dmDelivered),
                                      LogModerationAction(logDelivered))]
    /\ UNCHANGED <<reportVars, ticketVars, queryVars, toolVars, ledgerVars, sanctioned, episode, now, cmd, timer, lifts,
                   failedEps>>

MuteNotify(c, dmDelivered, logDelivered) ==
    cmd[c].op = "mute" /\ CommandNotify(c, dmDelivered, logDelivered)

KickNotify(c, dmDelivered, logDelivered) ==
    cmd[c].op = "kick" /\ CommandNotify(c, dmDelivered, logDelivered)

\* The end of the callback with the two deliveries observed: awaited
\* sendModerationDm, awaited logModerationAction, inside the callback's try.
TimerDeliver(s, dmDelivered, logDelivered) ==
    /\ timer[s].pc = "notify"
    /\ timer' = [timer EXCEPT ![s].pc = "done", ![s].notifs = @ + 1,
                              ![s].outcome = IF @ = "none" THEN "ok" ELSE @]
    /\ notice' = [notice EXCEPT !.of = "callback", !.result =
                     Notified(SendModerationDm(dmDelivered),
                              LogModerationAction(logDelivered))]
    /\ UNCHANGED <<reportVars, ticketVars, queryVars, toolVars, ledgerVars, sanctioned, episode, now, cmd, lifts, failedEps>>

\* No execute is between its first await and its last write.
NoCommandInFlight == \A b \in CmdIds : cmd[b].pc \in {"idle", "done", "rejected"}

\* Mutes, kicks and the automated reversals of mutes, each followed by its
\* notifications, delivered or not; the moderator issues one command at a
\* time.
NoticeNext ==
    \/ \E c \in CmdIds, target \in SchedTargets, durIn \in SchedDurationInputs :
          /\ NoCommandInFlight
          /\ MuteStart(c, target, durIn)
    \/ \E c \in CmdIds : MuteApply(c)
    \/ \E c \in CmdIds : MuteRecord(c)
    \/ \E c \in CmdIds, dm, log \in BOOLEAN : MuteNotify(c, dm, log)
    \/ \E c \in CmdIds, target \in SchedTargets :
          /\ NoCommandInFlight
          /\ KickStart(c, target)
    \/ \E c \in CmdIds : KickApply(c)
    \/ \E c \in CmdIds : KickRecord(c)
    \/ \E c \in CmdIds, dm, log \in BOOLEAN : KickNotify(c, dm, log)
    \/ \E s \in CmdIds : TimerFetch(s)
    \/ \E s \in CmdIds : TimerLift(s)
    \/ \E s \in CmdIds : TimerLiftFail(s)
    \/ \E s \in CmdIds : TimerRecord(s)
    \/ \E s \in CmdIds, dm, log \in BOOLEAN : TimerDeliver(s, dm, log)
    \/ Tick

SpecNotice == Init /\ [][NoticeNext]_vars

\* Timed mutes and bans and their callbacks, each step of a callback
\* resolving or rejecting; the moderator issues one command at a time.
ReversalDurationInputs == SchedDurationInputs \ {NoDuration}
ReversalNext ==
    \/ \E c \in CmdIds, target \in SchedTargets, durIn \in ReversalDurationInputs :
          NoCommandInFlight /\ MuteStart(c, target, durIn)
    \/ \E c \in CmdIds : MuteApply(c)
    \/ \E c \in CmdIds : MuteRecord(c)
    \/ \E c \in CmdIds, target \in SchedTargets, durIn \in ReversalDurationInputs :
          NoCommandInFlight /\ BanStart(c, target, durIn)
    \/ \E c \in CmdIds : BanApply(c)
    \/ \E s \in CmdIds : TimerRecordFail(s)
    \/ TimerNext

SpecReversal == Init /\ [][ReversalNext]_vars

\* ---------------------------------------------------------- report workflow
ReportedUser == "u1"

\* The fields logUserReport puts on the embed of the report message.
ReportFields == <<"Reporter", "Reported", "Report Reason", "Timestamp">>

HasField(fields, name) == \E i \in 1..Len(fields) : fields[i] = name

\* The state of a report is what its message shows: updateReportEmbedVerdict
\* adds "Veredicto" and "Estado", updateReportEmbedTaken adds "Estado".
Status(fields) ==
    IF HasField(fields, "Veredicto") THEN "VerdictGiven"
    ELSE IF HasField(fields, "Estado") THEN "Taken"
    ELSE "Open"

\* updateReportEmbedTaken: the fields of the embed it was handed, then the
\* state field; message.edit({embeds}) leaves the components as they are.
UpdateReportEmbedTaken(fields) == Append(fields, "Estado")

\* updateReportEmbedVerdict: the fields of the embed it was handed, then the
\* verdict and the state; message.edit({embeds, components: []}).
UpdateReportEmbedVerdict(fields) == Append(Append(fields, "Veredicto"), "Estado")

\* interaction.message as a handler reads it after its await: the message as
\* the interaction carried it, or as a later edit left it in the cache.
MessageSeenBy(m) == {mod[m].snap, report.fields}

\* What the reporter types into the form: a mention, a bare id, or other
\* text; and who the ids are.  "gone" is no member of the guild.
ReportReporter == "r1"
ReportInputs ==
    [form : {"mention", "id", "text"},
     id : {ReportedUser, ReportReporter, "bot1", "gone"}]
GuildMembers == {ReportedUser, ReportReporter, "bot1"}
Bots == {"bot1"}
NoUser == "none"

\* extractUserId: the id of a mention or of a string of digits, else null.
ExtractUserId(input) ==
    IF input.form \in {"mention", "id"} THEN input.id ELSE NoUser

\* The checks of processUserReport without the one for bots (what the code
\* does not do).
RejectReasonBotsPass(reporter, input) ==
    LET id == ExtractUserId(input)
    IN  IF id = NoUser THEN "unidentified"
        ELSE IF id \notin GuildMembers THEN "notFound"
        ELSE IF id = reporter THEN "self"
        ELSE "none"

\* The checks of processUserReport, in its order: the id, the member, the
\* reporter themself, a bot.
RejectReason(reporter, input) ==
    LET id == ExtractUserId(input)
    IN  IF id = NoUser THEN "unidentified"
        ELSE IF id \notin GuildMembers THEN "notFound"
        ELSE IF id = reporter THEN "self"
        ELSE IF id \in Bots THEN "bot"
        ELSE "none"

\* /report: processUserReport answers a rejected report with success: false;
\* otherwise it records the "note" case, and logUserReport posts the embed
\* with its buttons when a report channel is configured.
SubmitReport(input, configured) ==
    /\ ~report.submitted
    /\ IF RejectReason(ReportReporter, input) # "none"
       THEN /\ report' = [report EXCEPT !.rejected = TRUE]
            /\ UNCHANGED cases
       ELSE /\ cases' = CreateModerationCaseNoId(
                            CasePayload(ExtractUserId(input), "note", FALSE,
                                        <<"report", 1>>))
            /\ report' = IF configured
                         THEN [report EXCEPT !.submitted = TRUE,
                                             !.posted = TRUE,
                                             !.fields = ReportFields,
                                             !.components = TRUE]
                         ELSE [report EXCEPT !.submitted = TRUE]
    /\ UNCHANGED <<counters, call, allocLog, schedVars, ticketVars, queryVars, toolVars, mod, clicks, given, priv>>

\* "Take Report" pressed by a member of the staff: deferUpdate.
TakeClick(m) ==
    /\ report.posted /\ report.components
    /\ mod[m].pc = "idle"
    /\ clicks < MaxClicks
    /\ clicks' = clicks + 1
    /\ mod' = [mod EXCEPT ![m] = [IdleMod EXCEPT !.pc = "take", !.op = "take",
                                                !.snap = report.fields,
                                                !.late = given]]
    /\ UNCHANGED <<ledgerVars, schedVars, ticketVars, queryVars, toolVars, report, given, priv>>

\* updateReportEmbedTaken(interaction.message, ...).
TakeEdit(m) ==
    /\ mod[m].pc = "take"
    /\ \E seen \in MessageSeenBy(m) :
          report' = [report EXCEPT !.fields = UpdateReportEmbedTaken(seen)]
    /\ mod' = [mod EXCEPT ![m].pc = "idle", ![m].edited = TRUE]
    /\ UNCHANGED <<ledgerVars, schedVars, ticketVars, queryVars, toolVars, clicks, given, priv>>

\* "Give Verdict" pressed by a member of the staff: showModal.
VerdictOpen(m) ==
    /\ report.posted /\ report.components
    /\ mod[m].pc = "idle"
    /\ clicks < MaxClicks
    /\ clicks' = clicks + 1
    /\ mod' = [mod EXCEPT ![m] = [IdleMod EXCEPT !.pc = "form",
                                                !.op = "verdict"]]
    /\ UNCHANGED <<ledgerVars, schedVars, ticketVars, queryVars, toolVars, report, given, priv>>

\* The form is dismissed without being sent.
VerdictCancel(m) ==
    /\ mod[m].pc = "form"
    /\ mod' = [mod EXCEPT ![m] = IdleMod]
    /\ UNCHANGED <<ledgerVars, schedVars, ticketVars, queryVars, toolVars, report, clicks, given, priv>>

\* verdict_modal_ submitted: deferReply, then the reporter and the reported
\* are looked up on the embed of the message.
VerdictSubmit(m) ==
    /\ mod[m].pc = "form"
    /\ mod' = [mod EXCEPT ![m].pc = IF /\ HasField(report.fields, "Reporter")
                                       /\ HasField(report.fields, "Reported")
                                    THEN "dms" ELSE "idle",
                          ![m].snap = report.fields,
                          ![m].late = given]
    /\ UNCHANGED <<ledgerVars, schedVars, ticketVars, queryVars, toolVars, report, clicks, given, priv>>

\* How the DM to one of the two ends: users.fetch gave null ("unknown", no
\* send), user.send resolved, or user.send rejected.
DmOutcomes == {"delivered", "refused", "unknown"}
Delivered(a, b) == (IF a = "delivered" THEN 1 ELSE 0)
                      + (IF b = "delivered" THEN 1 ELSE 0)

\* sendVerdictDMs without the try around each send: a rejected send to the
\* reporter leaves the function and the handler's try (what the code does
\* not do).
SendVerdictDMsUnguarded(m, toReporter, toReported) ==
    /\ mod[m].pc = "dms"
    /\ mod' = IF toReporter = "refused"
              THEN [mod EXCEPT ![m].pc = "idle",
                               ![m].dm = <<toReporter, "none">>]
              ELSE [mod EXCEPT ![m].pc = "edit",
                               ![m].sent = @ + Delivered(toReporter, toReported),
                               ![m].dm = <<toReporter, toReported>>]
    /\ UNCHANGED <<ledgerVars, schedVars, ticketVars, queryVars, toolVars, report, clicks, given, priv>>

\* sendVerdictDMs: the two users are fetched, then one DM to the reporter
\* and one to the reported, each in its own try.
SendVerdictDMs(m, toReporter, toReported) ==
    /\ mod[m].pc = "dms"
    /\ mod' = [mod EXCEPT ![m].pc = "edit",
                          ![m].sent = @ + Delivered(toReporter, toReported),
                          ![m].dm = <<toReporter, toReported>>]
    /\ UNCHANGED <<ledgerVars, schedVars, ticketVars, queryVars, toolVars, report, clicks, given, priv>>

\* updateReportEmbedVerdict(message, ...), then the reply to the moderator.
VerdictEdit(m) ==
    /\ mod[m].pc = "edit"
    /\ \E seen \in MessageSeenBy(m) :
          report' = [report EXCEPT !.fields = UpdateReportEmbedVerdict(seen),
                                   !.components = FALSE]
    /\ given' = TRUE
    /\ mod' = [mod EXCEPT ![m].pc = "idle", ![m].edited = TRUE]
    /\ UNCHANGED <<ledgerVars, schedVars, ticketVars, queryVars, toolVars, clicks, priv>>

\* "Open Private Channel" pressed by a member of the staff: deferUpdate, the
\* reporter and the reported are read from the embed and fetched.
PrivateChannelClick(m) ==
    /\ report.posted /\ report.components
    /\ mod[m].pc = "idle"
    /\ clicks < MaxClicks
    /\ clicks' = clicks + 1
    /\ mod' = [mod EXCEPT ![m] = [IdleMod EXCEPT
                  !.pc = IF /\ HasField(report.fields, "Reporter")
                            /\ HasField(report.fields, "Reported")
                         THEN "channel" ELSE "idle",
                  !.op = "channel", !.snap = report.fields, !.late = given]]
    /\ UNCHANGED <<ledgerVars, schedVars, ticketVars, queryVars, toolVars, report, given, priv>>

\* createPrivateReportChannel: null without a usable category, otherwise
\* guild.channels.create; then sendInitialReportChannelMessage.
CreatePrivateReportChannel(m, configured) ==
    /\ mod[m].pc = "channel"
    /\ priv' = IF configured THEN priv + 1 ELSE priv
    /\ mod' = [mod EXCEPT ![m].pc = IF configured THEN "channelEdit" ELSE "idle"]
    /\ UNCHANGED <<ledgerVars, schedVars, ticketVars, queryVars, toolVars, report, clicks, given>>

\* updateReportEmbedWithChannel: the fields of the embed it was handed, then
\* "Canal Privado"; message.edit({embeds}).
UpdateReportEmbedWithChannel(m) ==
    /\ mod[m].pc = "channelEdit"
    /\ \E seen \in MessageSeenBy(m) :
          report' = [report EXCEPT !.fields = Append(seen, "Canal Privado")]
    /\ mod' = [mod EXCEPT ![m].pc = "idle", ![m].edited = TRUE]
    /\ UNCHANGED <<ledgerVars, schedVars, ticketVars, queryVars, toolVars, clicks, given, priv>>

ReportNext ==
    \/ \E input \in ReportInputs, configured \in BOOLEAN :
          SubmitReport(input, configured)
    \/ \E m \in Mods : TakeClick(m)
    \/ \E m \in Mods : TakeEdit(m)
    \/ \E m \in Mods : VerdictOpen(m)
    \/ \E m \in Mods : VerdictCancel(m)
    \/ \E m \in Mods : VerdictSubmit(m)
    \/ \E m \in Mods, toReporter \in DmOutcomes, toReported \in DmOutcomes :
          SendVerdictDMs(m, toReporter, toReported)
    \/ \E m \in Mods : VerdictEdit(m)
    \/ \E m \in Mods : PrivateChannelClick(m)
    \/ \E m \in Mods, configured \in BOOLEAN :
          CreatePrivateReportChannel(m, configured)
    \/ \E m \in Mods : UpdateReportEmbedWithChannel(m)

SpecReport == Init /\ [][ReportNext]_vars

\* ---------------------------------------------------------------- tickets
TicketsOf(u) == {t \in TicketIds : ticket[t].live /\ ticket[t].owner = u}

\* hasOpenTicket: the first live ticket channel of the user, or none (0).
HasOpenTicket(u) ==
    IF TicketsOf(u) = {} THEN 0
    ELSE CHOOSE t \in TicketsOf(u) : \A o \in TicketsOf(u) : t <= o

\* The id guild.channels.create gives the next channel.
NextTicketId == Cardinality({t \in TicketIds : ticket[t].created}) + 1

TicketDone(p, result, ref, raised) ==
    [tproc EXCEPT ![p].pc = "done", ![p].result = result, ![p].ref = ref,
                  ![p].raised = raised]

\* ticket_open_*: deferReply, then hasOpenTicket; an existing ticket is named
\* in the reply and nothing is created.
OpenClick(p, u) ==
    /\ tproc[p].pc = "idle"
    /\ tproc' = IF HasOpenTicket(u) # 0
                THEN [tproc EXCEPT ![p] = [IdleTicketOp EXCEPT
                          !.pc = "done", !.op = "open", !.user = u,
                          !.result = "already", !.ref = HasOpenTicket(u)]]
                ELSE [tproc EXCEPT ![p] = [IdleTicketOp EXCEPT
                          !.pc = "check", !.op = "open", !.user = u]]
    /\ UNCHANGED <<ledgerVars, schedVars, reportVars, queryVars, toolVars, ticket>>

\* createTicket: hasOpenTicket again (null when a ticket exists), then the
\* category, the bot's permissions and the user are looked up.
CreateTicketCheck(p, configured) ==
    /\ tproc[p].pc = "check"
    /\ tproc' = IF HasOpenTicket(tproc[p].user) # 0
                THEN TicketDone(p, "blocked", 0, FALSE)
                ELSE IF ~configured
                THEN TicketDone(p, "notCreated", 0, FALSE)
                ELSE [tproc EXCEPT ![p].pc = "create"]
    /\ UNCHANGED <<ledgerVars, schedVars, reportVars, queryVars, toolVars, ticket>>

\* guild.channels.create, then sendTicketInitialMessage: the embed says
\* "Waiting for staff" and carries the take, close and transcript buttons.
CreateTicketChannel(p) ==
    /\ tproc[p].pc = "create"
    /\ NextTicketId \in TicketIds
    /\ ticket' = [ticket EXCEPT ![NextTicketId] =
                     [NoTicket EXCEPT !.created = TRUE, !.live = TRUE,
                                      !.owner = tproc[p].user,
                                      !.status = "Open"]]
    /\ tproc' = TicketDone(p, "created", NextTicketId, FALSE)
    /\ UNCHANGED <<ledgerVars, schedVars, reportVars, queryVars, toolVars>>

\* ticket_take_ pressed by a member of the staff: deferUpdate.
TicketTakeClick(p, staff, t) ==
    /\ tproc[p].pc = "idle"
    /\ ticket[t].live
    /\ tproc' = [tproc EXCEPT ![p] = [IdleTicketOp EXCEPT
                    !.pc = "takeFetch", !.op = "take", !.user = staff,
                    !.t = t]]
    /\ UNCHANGED <<ledgerVars, schedVars, reportVars, queryVars, toolVars, ticket>>

\* guild.channels.fetch(channelId), then channel.messages.fetch({limit: 10})
\* and the search of the initial message among these ten: when it is not
\* among them (inView false: ten or more messages follow it in the channel)
\* the handler ends without an edit and without a reply.
TicketTakeFetch(p, inView) ==
    /\ tproc[p].pc = "takeFetch"
    /\ tproc' = IF ~ticket[tproc[p].t].live
                THEN TicketDone(p, "notFound", 0, FALSE)
                ELSE IF ~inView
                THEN TicketDone(p, "noInitialMessage", 0, FALSE)
                ELSE [tproc EXCEPT ![p].pc = "takeEdit"]
    /\ UNCHANGED <<ledgerVars, schedVars, reportVars, queryVars, toolVars, ticket>>

\* updateTicketEmbedTaken: the Status field becomes "Taken by <staff>"; a
\* rejected message.edit is logged inside it.
UpdateTicketEmbedTaken(p) ==
    /\ tproc[p].pc = "takeEdit"
    /\ LET t == tproc[p].t
       IN  IF ticket[t].live
           THEN /\ ticket' = [ticket EXCEPT ![t].status = "Taken",
                                            ![t].staff = tproc[p].user]
                /\ tproc' = TicketDone(p, "taken", t, FALSE)
           ELSE /\ tproc' = TicketDone(p, "editFailed", 0, FALSE)
                /\ UNCHANGED ticket
    /\ UNCHANGED <<ledgerVars, schedVars, reportVars, queryVars, toolVars>>

\* ticket_close_ pressed by a member of the staff: showModal.
CloseClick(p, staff, t) ==
    /\ tproc[p].pc = "idle"
    /\ ticket[t].live
    /\ tproc' = [tproc EXCEPT ![p] = [IdleTicketOp EXCEPT
                    !.pc = "closeForm", !.op = "close", !.user = staff,
                    !.t = t]]
    /\ UNCHANGED <<ledgerVars, schedVars, reportVars, queryVars, toolVars, ticket>>

\* close_ticket_modal_ submitted: deferReply, guild.channels.fetch.
CloseSubmit(p) ==
    /\ tproc[p].pc = "closeForm"
    /\ tproc' = IF ticket[tproc[p].t].live
                THEN [tproc EXCEPT ![p].pc = "announce"]
                ELSE TicketDone(p, "notFound", 0, FALSE)
    /\ UNCHANGED <<ledgerVars, schedVars, reportVars, queryVars, toolVars, ticket>>

\* closeTicket up to the grace delay: the history is read and the "Ticket
\* Closed" embed is sent; a rejection is rethrown to the handler.
CloseAnnounce(p) ==
    /\ tproc[p].pc = "announce"
    /\ LET t == tproc[p].t
       IN  IF ticket[t].live
           THEN /\ ticket' = [ticket EXCEPT
                       ![t].closing = TRUE,
                       ![t].atClose = IF ticket[t].closing THEN @
                                      ELSE <<ticket[t].status, ticket[t].staff>>]
                /\ tproc' = [tproc EXCEPT ![p].pc = "delete"]
           ELSE /\ tproc' = TicketDone(p, "sendFailed", 0, TRUE)
                /\ UNCHANGED ticket
    /\ UNCHANGED <<ledgerVars, schedVars, reportVars, queryVars, toolVars>>

\* closeTicket after the grace delay: the log, then channel.delete; a
\* rejected delete is rethrown to the handler, which replies with an error.
CloseDelete(p) ==
    /\ tproc[p].pc = "delete"
    /\ LET t == tproc[p].t
       IN  IF ticket[t].live
           THEN /\ ticket' = [ticket EXCEPT ![t].live = FALSE,
                                            ![t].status = "Closed"]
                /\ tproc' = TicketDone(p, "closed", t, FALSE)
           ELSE /\ tproc' = TicketDone(p, "reclaimFailed", t, TRUE)
                /\ UNCHANGED ticket
    /\ UNCHANGED <<ledgerVars, schedVars, reportVars, queryVars, toolVars>>

\* What getTicketConfig and the fetch of the transcript channel can yield: no
\* transcriptChannelId, one that is no usable text channel, a usable one.
TranscriptConfigs == {"none", "invalid", "ok"}

\* ticket_transcript_ pressed by a member of the staff: deferReply.
TranscriptClick(p, staff, t) ==
    /\ tproc[p].pc = "idle"
    /\ ticket[t].live
    /\ tproc' = [tproc EXCEPT ![p] = [IdleTicketOp EXCEPT
                    !.pc = "trFetch", !.op = "transcript", !.user = staff,
                    !.t = t]]
    /\ UNCHANGED <<ledgerVars, schedVars, reportVars, queryVars, toolVars, ticket>>

\* guild.channels.fetch(channelId) and the check of the channel's name.
TranscriptFetch(p) ==
    /\ tproc[p].pc = "trFetch"
    /\ tproc' = IF ticket[tproc[p].t].live
                THEN [tproc EXCEPT ![p].pc = "trConfig"]
                ELSE TicketDone(p, "notFound", 0, FALSE)
    /\ UNCHANGED <<ledgerVars, schedVars, reportVars, queryVars, toolVars, ticket>>

\* The history read before the destination is looked at (what the code does
\* not do).
GenerateTranscriptConfigLate(p, cfg) ==
    /\ tproc[p].pc = "trConfig"
    /\ tproc' = [tproc EXCEPT
          ![p].cfg = cfg,
          ![p].reads = @ + 1,
          ![p].pc = IF cfg = "ok" THEN "trSend" ELSE "done",
          ![p].result = IF cfg = "none" THEN "NotConfigured"
                        ELSE IF cfg = "invalid" THEN "InvalidDestination"
                        ELSE @,
          ![p].raised = cfg # "ok"]
    /\ UNCHANGED <<ledgerVars, schedVars, reportVars, queryVars, toolVars, ticket>>

\* generateTranscript, first part: "No transcript channel configured." and
\* "The transcript channel is not valid." are thrown before anything is read.
GenerateTranscriptConfig(p, cfg) ==
    /\ tproc[p].pc = "trConfig"
    /\ tproc' = [tproc EXCEPT
          ![p].cfg = cfg,
          ![p].pc = IF cfg = "ok" THEN "trRead" ELSE "done",
          ![p].result = IF cfg = "none" THEN "NotConfigured"
                        ELSE IF cfg = "invalid" THEN "InvalidDestination"
                        ELSE @,
          ![p].raised = cfg # "ok"]
    /\ UNCHANGED <<ledgerVars, schedVars, reportVars, queryVars, toolVars, ticket>>

\* generateTranscript, the loop of channel.messages.fetch.
GenerateTranscriptRead(p) ==
    /\ tproc[p].pc = "trRead"
    /\ tproc' = IF ticket[tproc[p].t].live
                THEN [tproc EXCEPT ![p].pc = "trSend", ![p].reads = @ + 1]
                ELSE TicketDone(p, "readFailed", 0, TRUE)
    /\ UNCHANGED <<ledgerVars, schedVars, reportVars, queryVars, toolVars, ticket>>

\* generateTranscript, transcriptChannel.send of the embed and of the text.
GenerateTranscriptSend(p) ==
    /\ tproc[p].pc = "trSend"
    /\ tproc' = [tproc EXCEPT ![p].pc = "done", ![p].result = "saved",
                              ![p].ref = tproc[p].t,
                              ![p].delivered = @ + 1]
    /\ UNCHANGED <<ledgerVars, schedVars, reportVars, queryVars, toolVars, ticket>>

TicketNext ==
    \/ \E p \in TicketOps, staff \in Staff, t \in TicketIds :
          TranscriptClick(p, staff, t)
    \/ \E p \in TicketOps : TranscriptFetch(p)
    \/ \E p \in TicketOps, cfg \in TranscriptConfigs :
          GenerateTranscriptConfig(p, cfg)
    \/ \E p \in TicketOps : GenerateTranscriptRead(p)
    \/ \E p \in TicketOps : GenerateTranscriptSend(p)
    \/ \E p \in TicketOps, u \in Requesters : OpenClick(p, u)
    \/ \E p \in TicketOps, configured \in BOOLEAN : CreateTicketCheck(p, configured)
    \/ \E p \in TicketOps : CreateTicketChannel(p)
    \/ \E p \in TicketOps, staff \in Staff, t \in TicketIds :
          TicketTakeClick(p, staff, t)
    \/ \E p \in TicketOps, inView \in BOOLEAN : TicketTakeFetch(p, inView)
    \/ \E p \in TicketOps : UpdateTicketEmbedTaken(p)
    \/ \E p \in TicketOps, staff \in Staff, t \in TicketIds :
          CloseClick(p, staff, t)
    \/ \E p \in TicketOps : CloseSubmit(p)
    \/ \E p \in TicketOps : CloseAnnounce(p)
    \/ \E p \in TicketOps : CloseDelete(p)

SpecTicket == Init /\ [][TicketNext]_vars

\* ---------------------------------------------------- ticket properties
\* The opens of a requester that ended with their ticket created or found.
OpensOf(u) ==
    {p \in TicketOps : /\ tproc[p].op = "open" /\ tproc[p].user = u
                       /\ tproc[p].pc = "done"
                       /\ tproc[p].result \in {"created", "already", "blocked"}}

NeverClosed(u) ==
    \A t \in TicketIds :
        (ticket[t].created /\ ticket[t].owner = u)
        => (ticket[t].live /\ ~ticket[t].closing)

\* C12: while none of their tickets has been closed, a requester has at most
\* one ticket channel, and every open they made returned that same ticket.
C12_OpenTwiceSameTicket ==
    \A u \in Requesters :
        NeverClosed(u)
        => /\ Cardinality(TicketsOf(u)) <= 1
           /\ \A p, q \in OpensOf(u) :
                 tproc[p].ref # 0 /\ tproc[p].ref = tproc[q].ref

\* C31: at most one ticket channel that is not closed exists per requester,
\* also when two opens of the requester interleave at their awaits.
C31_OneLiveTicketPerRequester ==
    \A u \in Requesters : Cardinality(TicketsOf(u)) <= 1

\* The takes of a ticket that have ended, and those still on their way.
TakesOf(t) ==
    {p \in TicketOps : tproc[p].op = "take" /\ tproc[p].t = t}

\* C34: after any sequence of takes of a ticket that is not closed (none of
\* them still on its way), the ticket is Taken and its assigned staff is the
\* caller of a take, the latest of them; the Status field is one field,
\* replaced by each take.
C34_LastTakeWins ==
    \A t \in TicketIds :
        (/\ ticket[t].live /\ ~ticket[t].closing
         /\ TakesOf(t) # {}
         /\ \A p \in TakesOf(t) : tproc[p].pc = "done")
        => /\ ticket[t].status = "Taken"
           /\ \E p \in TakesOf(t) : ticket[t].staff = tproc[p].user

\* C13: once the closing of a ticket has been announced, its assigned staff
\* stays what it was and its status only goes on to Closed.
C13_ClosedIsTerminal ==
    \A t \in TicketIds :
        ticket[t].closing
        => /\ ticket[t].staff = ticket[t].atClose[2]
           /\ ticket[t].status \in {ticket[t].atClose[1], "Closed"}

\* C19: a close whose channel turned out to be deleted already ends without
\* raising an error to its caller.
C19_CloseToleratesReclaimFailure ==
    \A p \in TicketOps :
        tproc[p].result = "reclaimFailed" => ~tproc[p].raised

\* C20: generateTranscript without a configured destination fails with
\* NotConfigured, and with an unusable one with InvalidDestination; either
\* way it has read no history and delivered nothing.
C20_TranscriptNeedsDestination ==
    \A p \in TicketOps :
        /\ tproc[p].cfg = "none" => tproc[p].result = "NotConfigured"
        /\ tproc[p].cfg = "invalid" => tproc[p].result = "InvalidDestination"
        /\ tproc[p].cfg \in {"none", "invalid"}
              => /\ tproc[p].pc = "done" /\ tproc[p].raised
                 /\ tproc[p].reads = 0 /\ tproc[p].delivered = 0

\* On a live ticket one transcript failed for want of a destination and one
\* for an unusable destination.
C20_Witness ==
    \E p, q \in TicketOps :
        /\ tproc[p].result = "NotConfigured" /\ ticket[tproc[p].t].live
        /\ tproc[q].result = "InvalidDestination" /\ tproc[q].raised

\* ---------------------------------------------------- report properties
ReportCases == {c \in cases : c.by = <<"report", 1>>}

\* C10: a verdict written onto a taken report leaves it VerdictGiven; a take
\* or a verdict that arrives after that (a verdict form opened before the
\* first verdict was sent included) sends no notification and changes
\* nothing, and the report keeps its one case record.
C10_VerdictGivenIsTerminal ==
    /\ \A m \in Mods :
          (/\ mod[m].op = "verdict" /\ mod[m].edited
           /\ \A o \in Mods : ~(mod[o].op = "take" /\ mod[o].edited))
          => Status(report.fields) = "VerdictGiven"
    /\ \A m \in Mods : mod[m].late => (mod[m].sent = 0 /\ ~mod[m].edited)
    /\ Cardinality(ReportCases) <= 1

\* C15: every accepted report has a case of type note that carries a case id,
\* positive and shared with no other report of the community.
C15_ReportHasCaseId ==
    /\ report.submitted => ReportCases # {}
    /\ \A c \in ReportCases :
          /\ c.type = "note"
          /\ HasCaseId(c) /\ CaseIdOf(c) > 0
          /\ \A d \in cases :
                (d # c /\ d.guildId = c.guildId /\ HasCaseId(d))
                => CaseIdOf(d) # CaseIdOf(c)

\* C16: a report that names the reporter themself, somebody who is no member,
\* a bot, or nobody leaves no case, no allocated case id and no report
\* message.
C16_RejectedReportChangesNothing ==
    /\ \A c \in ReportCases :
          /\ c.userId \in GuildMembers \ Bots
          /\ c.userId # ReportReporter
    /\ ~report.submitted
          => (ReportCases = {} /\ ~report.posted /\ counters = <<>>)

\* A report was rejected and nothing was stored or posted; the next, naming
\* a member, was accepted.
C16_Witness ==
    /\ report.rejected /\ report.submitted /\ report.posted
    /\ Cardinality(ReportCases) = 1

\* C35: a verdict that reached its notifications has tried the reporter and
\* the reported, whatever became of either DM, and goes on to write the
\* verdict onto the report: the write is its next step, and the report shows
\* VerdictGiven when it is made.
C35_VerdictDmFailureIsContained ==
    /\ \A m \in Mods :
          (mod[m].op = "verdict" /\ mod[m].dm # <<"none", "none">>)
          => /\ mod[m].dm[1] \in DmOutcomes /\ mod[m].dm[2] \in DmOutcomes
             /\ \/ mod[m].pc = "edit" /\ ENABLED VerdictEdit(m)
                \/ mod[m].edited
    /\ \A m \in Mods :
          (mod[m].op = "verdict" /\ mod[m].edited) => given
    /\ given => \E m \in Mods : mod[m].op = "verdict" /\ mod[m].edited

\* The DM to the reporter was refused, the one to the reported went out, and
\* the report shows the verdict.
C35_Witness ==
    \E m \in Mods :
        /\ mod[m].op = "verdict" /\ mod[m].edited
        /\ mod[m].dm = <<"refused", "delivered">> /\ mod[m].sent = 1
        /\ Status(report.fields) = "VerdictGiven"

\* C36: the edit of a take stores no case and allocates no case id, leaves
\* every field of the report message that is not its state as it was, and
\* leaves a report that was Submitted Taken.
C36_TakeIsPresentationOnly ==
    [][\A m \in Mods :
          (mod[m].pc = "take" /\ mod'[m].pc # "take")
          => /\ cases' = cases /\ counters' = counters /\ allocLog' = allocLog
             /\ \A i \in 1..Len(report.fields) :
                   report.fields[i] # "Estado"
                   => HasField(report'.fields, report.fields[i])
             /\ Status(report.fields) = "Open"
                   => Status(report'.fields) = "Taken"]_vars

\* C14: a report has one private channel at most, however often and however
\* interleaved the staff ask for it to be opened.
C14_OnePrivateChannel == priv <= 1

\* C11: a verdict sent for a report that nobody has taken (its message still
\* shows Submitted) is rejected: no verdict notification goes out and the
\* message is not edited.
C11_VerdictRequiresTaken ==
    \A m \in Mods :
        (/\ mod[m].op = "verdict"
         /\ mod[m].snap # <<>>
         /\ Status(mod[m].snap) = "Open")
        => (mod[m].sent = 0 /\ ~mod[m].edited)

\* --------------------------------------------------- scheduler properties
\* What one command has changed: the sanction it put on, the cases it
\* recorded, the reversal it armed.
TimerCases(s) == {c \in cases : c.by = <<"timer", s>>}
CmdCases(c) == {k \in cases : k.by = <<"cmd", c>>}
ChangedNothing(c) ==
    /\ cmd[c].ep = 0
    /\ CmdCases(c) = {}
    /\ timer[c] = NoTimer

TargetOf(id) == CHOOSE t \in SanctionTargets : t.id = id

\* The requests the commands are to refuse: the moderator themself, the owner
\* or a member of no lower rank, a member that cannot be resolved (mute and
\* kick), a duration that is malformed, zero or above the cap.
MustRefuse(c) ==
    LET t == TargetOf(cmd[c].user)
    IN  \/ cmd[c].dur = -1
        \/ t.member /\ t.id = Moderator.id
        \/ t.member /\ (t.id = GuildOwner \/ t.rank >= Moderator.rank)
        \/ ~t.member /\ cmd[c].op \in {"mute", "kick"}

\* C17: a mute, ban or kick that is refused has applied no sanction, recorded
\* no case and armed no reversal; whoever is sanctioned was sanctioned by a
\* command that was let through; and the requests that are to be refused
\* are refused.
C17_RejectedRequestChangesNothing ==
    /\ \A k \in Keys : sanctioned[k] =>
          \E c \in CmdIds : /\ cmd[c].pc \notin {"idle", "rejected"}
                            /\ KeyOf(c) = k /\ cmd[c].ep > 0
    /\ \A c \in CmdIds :
        /\ cmd[c].pc = "rejected" => ChangedNothing(c)
        /\ (cmd[c].pc # "idle" /\ cmd[c].op \in {"mute", "ban", "kick"}
            /\ MustRefuse(c))
           => cmd[c].pc = "rejected"

\* A mute with a duration above the cap, a ban of the moderator's peer and a
\* kick of a member who has left were all refused, with nobody sanctioned.
C17_Witness ==
    \E a, b, c \in CmdIds :
        /\ cmd[a].pc = "rejected" /\ cmd[a].op = "mute" /\ cmd[a].dur = -1
        /\ cmd[b].pc = "rejected" /\ cmd[b].op = "ban" /\ cmd[b].user = "peer"
        /\ cmd[c].pc = "rejected" /\ cmd[c].op = "kick" /\ cmd[c].user = "gone"
        /\ \A k \in Keys : ~sanctioned[k]

\* What a command that went through has left behind: the sanction, one
\* case, and a reversal when a duration was given.
CommandSettled(c) ==
    /\ cmd[c].pc = "done" /\ cmd[c].ep > 0
    /\ Cardinality(CmdCases(c)) = 1
    /\ cmd[c].dur > 0 <=> timer[c] # NoTimer

\* What a callback that lifted its sanction has left behind: one lift, one
\* case, one attempt.
CallbackSettled(s) ==
    /\ timer[s].pc = "done" /\ timer[s].attempts = 1 /\ timer[s].notifs = 1
    /\ \E l \in lifts : l.by = s /\ l.auto
    /\ Cardinality(TimerCases(s)) = 1

LiftsOf(u, k, e) == {l \in lifts : l.user = u /\ l.kind = k /\ l.ep = e}

\* The automated cases recorded by the callbacks that lifted episode e.
AutoCasesOf(u, k, e) ==
    {c \in cases :
        /\ c.automated
        /\ \E s \in CmdIds :
              /\ c.by = <<"timer", s>>
              /\ cmd[s].user = u /\ cmd[s].op = k /\ timer[s].ep = e}

\* No callback of the key is between its verification and its end.
Quiescent(u, k) ==
    \A s \in CmdIds :
        (cmd[s].op = k /\ cmd[s].user = u)
        => timer[s].pc \notin {"lift", "record", "notify"}

\* C2: for a mute or ban applied with a duration and not reversed manually,
\* once its expiry has passed and its callback has run (no lift having
\* failed), exactly one automated lift of that sanction has occurred and
\* exactly one case with automated = true has been recorded for it.
C2_ExactlyOneAutomatedReversal ==
    \A s \in CmdIds :
        LET u == cmd[s].user
            k == cmd[s].op
            e == cmd[s].ep
        IN  (/\ k \in Kinds /\ cmd[s].dur > 0
             /\ timer[s].pc = "done" /\ now >= timer[s].fireAt
             /\ Quiescent(u, k)
             /\ {l \in LiftsOf(u, k, e) : ~l.auto} = {}
             /\ <<u, k, e>> \notin failedEps)
            => /\ Cardinality({l \in LiftsOf(u, k, e) : l.auto}) = 1
               /\ Cardinality(AutoCasesOf(u, k, e)) = 1

\* C3: a reversal whose sanction was lifted manually before the timer was due
\* performs no lift and records no automated case, at its expiry or later.
C3_CancelledReversalNeverActs ==
    \A s \in CmdIds :
        timer[s].cancelled => /\ timer[s].attempts = 0
                              /\ TimerCases(s) = {}

PendingFor(key) ==
    {s \in CmdIds : /\ timer[s].pc = "pending"
                    /\ cmd[s].op \in Kinds /\ KeyOf(s) = key}

\* C4: at most one reversal is pending per (guild, subject, kind).
C4_AtMostOnePendingPerKey ==
    \A key \in Keys : Cardinality(PendingFor(key)) <= 1

\* C5: a callback that finds the sanction gone lifts nothing, records nothing
\* and notifies nobody; and a sanction lifted by a callback is lifted once
\* only, whatever the interleaving of a manual reversal with the callback's
\* steps.
C5_NoDoubleReversal ==
    /\ \A s \in CmdIds :
          timer[s].outcome = "skipped"
          => /\ timer[s].attempts = 0
             /\ TimerCases(s) = {}
             /\ timer[s].notifs = 0
    /\ \A key \in Keys : \A e \in 1..MaxCmds :
          (\E l \in LiftsOf(key[1], key[2], e) : l.auto)
          => Cardinality(LiftsOf(key[1], key[2], e)) = 1

\* C6: a callback whose lift failed has ended: it recorded no automated case,
\* sent no notification and made its one attempt only; and every other
\* callback that is due can still run.
C6_FailedLiftAborts ==
    /\ \A s \in CmdIds :
          timer[s].outcome = "liftFailed"
          => /\ timer[s].pc = "done"
             /\ timer[s].attempts = 1
             /\ TimerCases(s) = {}
             /\ timer[s].notifs = 0
    /\ (\E s \in CmdIds : timer[s].outcome = "liftFailed")
          => \A t \in CmdIds :
                (timer[t].pc = "pending" /\ now >= timer[t].fireAt)
                => ENABLED TimerFetch(t)

\* The lift of one callback failed, and another callback of the same subject
\* went through all of its steps.
C6_Witness ==
    \E s, t \in CmdIds :
        /\ timer[s].outcome = "liftFailed" /\ timer[s].pc = "done"
        /\ timer[t].outcome = "ok" /\ timer[t].pc = "done"
        /\ TimerCases(t) # {}

\* C27: for every accepted duration, those above 2^31 - 1 ms included, the
\* automated reversal of a sanction never occurs before the expiresAt the
\* command computed.  (The clock stands still while a callback runs, so a
\* callback past its lift shows the moment of the lift.)
C27_NoReversalBeforeExpiry ==
    \A s \in CmdIds :
        (timer[s].pc \in {"record", "notify"} /\ timer[s].attempts > 0)
        => now >= cmd[s].expiresAt

\* C28: a reversal timer lifts only the sanction that scheduled it: every
\* automated lift ends the episode its own command began, and every automated
\* case is of a callback that lifted that episode; a newer mute of the same
\* member is left in place by the firing of an older timer.
C28_TimerLiftsOnlyItsOwnSanction ==
    /\ \A l \in lifts : l.auto => l.ep = cmd[l.by].ep
    /\ \A s \in CmdIds : TimerCases(s) # {} => timer[s].ep = cmd[s].ep

\* C29: once a sanction command has finished, succeeded or failed midway,
\* its member carries the sanction of the command if and only if the command
\* recorded a case of that type, and a sanction it applied with a duration
\* has its reversal pending.
C29_SanctionLedgerSchedulerAgree ==
    \A c \in CmdIds :
        (cmd[c].pc \in {"done", "failed"} /\ cmd[c].op \in Kinds \cup {"kick"})
        => /\ cmd[c].ep > 0 <=> CmdCases(c) # {}
           /\ (cmd[c].ep > 0 /\ cmd[c].dur > 0) => timer[c].pc = "pending"

\* The automated lifts a callback has completed.
TimerLifts(s) == {l \in lifts : l.auto /\ l.by = s}

\* C30: a callback that found the sanction in place lifts it, then records
\* the automated case, then notifies: no case of a callback exists before its
\* lift has completed (nor after a lift that failed), and no notification
\* before its case.
C30_LiftThenCaseThenNotify ==
    \A s \in CmdIds :
        /\ timer[s].pc = "lift"
              => TimerLifts(s) = {} /\ TimerCases(s) = {} /\ timer[s].notifs = 0
        /\ timer[s].pc = "record"
              => TimerLifts(s) # {} /\ TimerCases(s) = {} /\ timer[s].notifs = 0
        /\ timer[s].pc = "notify"
              => TimerLifts(s) # {} /\ TimerCases(s) # {} /\ timer[s].notifs = 0
        /\ TimerCases(s) # {} => TimerLifts(s) # {}
        /\ timer[s].notifs > 0 => TimerCases(s) # {}

\* A callback found its mute in place and went through its three steps, and
\* the case record of another callback failed after its lift.
C30_Witness ==
    \E s, t \in CmdIds :
        /\ cmd[s].op = "mute" /\ timer[s].saw /\ timer[s].pc = "done"
        /\ TimerLifts(s) # {} /\ TimerCases(s) # {} /\ timer[s].notifs = 1
        /\ timer[t].outcome = "recordFailed" /\ TimerLifts(t) # {}
        /\ TimerCases(t) = {} /\ timer[t].notifs = 0

\* -------------------------------------------------- transcript properties
Ids(seq) == {seq[i] : i \in 1..Len(seq)}
Ascending(seq) == \A i, j \in 1..Len(seq) : i < j => seq[i] < seq[j]

\* C32: generateTranscript ends its paging for every finite history (after
\* at most one fetch per full page and one more), and what it then holds is
\* every message of the history it began to read, once each, oldest first;
\* also for an empty history and for one of a whole number of pages.  (Of a
\* history from which messages were deleted during the reading, it holds
\* what was left of it, once each, oldest first.)
C32_TranscriptIsTheHistory ==
    /\ paging.pc = "fetch" => ENABLED FetchPage
    /\ paging.fetches > 0
          => paging.fetches <= Len(paging.history) \div PageLimit + 1
    /\ paging.pc = "done"
          => /\ ~paging.disturbed => paging.messages = paging.history
             /\ Ascending(paging.messages)
             /\ Ids(paging.messages) \subseteq Ids(paging.history)
             /\ Ids(paging.history) \cap Ids(channel.ids)
                    \subseteq Ids(paging.messages)

\* A history of two full pages was read to its end in three fetches, a
\* message having been posted meanwhile.
C32_Witness ==
    /\ paging.pc = "done" /\ ~paging.disturbed
    /\ paging.history = <<1, 2, 3, 4>> /\ paging.fetches = 3
    /\ paging.messages = <<1, 2, 3, 4>>
    /\ channel.ids = <<1, 2, 3, 4, 5>>

RECURSIVE Flatten(_)
Flatten(seqs) == IF seqs = <<>> THEN <<>> ELSE Head(seqs) \o Flatten(Tail(seqs))

\* C33: no part that generateTranscript delivers is longer than maxLength,
\* however long a line of the text is, and the parts delivered, in their
\* order, hold every line of the text once.
C33_ChunksWithinLimitAndComplete ==
    /\ \A k \in 1..Len(chunker.sent) : chunker.sent[k].length <= MaxLength
    /\ chunker.pc = "done"
          => Flatten([k \in 1..Len(chunker.sent) |-> chunker.sent[k].lines])
                = [k \in 1..Len(chunker.lines) |-> k]

\* ------------------------------------------------------- query properties
\* C21: what getUserCases returns with a type filter is of the guild, the
\* member and the type asked for, newest first, and no longer than the limit
\* that was supplied.
C21_FilteredNewestFirstWithinLimit ==
    (query.pc = "done" /\ query.type # "none") =>
        /\ \A i \in 1..Len(query.result) :
              /\ query.result[i].guildId = query.guildId
              /\ query.result[i].userId = query.userId
              /\ query.result[i].type = query.type
        /\ \A i, j \in 1..Len(query.result) :
              i < j => query.result[i].createdAt >= query.result[j].createdAt
        /\ query.limit.given => Len(query.result) <= query.limit.n

\* C22: what getUserStats returns comes from one snapshot: the total is the
\* sum of the per-type counts, a most recent case is reported exactly when
\* the total is above zero, and that case is one of those counted.
C22_StatsFromOneSnapshot ==
    stats.pc = "done" =>
        /\ stats.totalCases = TotalCases(stats.typeCounts)
        /\ stats.lastAction # {} <=> stats.totalCases > 0
        /\ stats.lastAction \subseteq stats.counted

\* C23: every case that was ever stored stays stored, field for field: each
\* step leaves the stored cases in place and at most adds to them.
C23_CasesAreImmutable == [][cases \subseteq cases']_vars

\* A member has been muted, unmuted and muted again: three cases of the same
\* member are stored side by side.
C23_Witness ==
    /\ Cardinality({c \in cases : c.type = "mute"}) >= 2
    /\ \E c \in cases : c.type = "unmute"

\* ------------------------------------------------------- codec properties
\* A token as the specification describes it: a numeral followed by one unit
\* letter of either case, worth the seconds below.
SecondsOfLetter ==
    [s |-> 1, S |-> 1, m |-> 60, M |-> 60, h |-> 3600, H |-> 3600,
     d |-> 86400, D |-> 86400, w |-> 604800, W |-> 604800]

RECURSIVE Pow10(_)
Pow10(k) == IF k = 0 THEN 1 ELSE 10 * Pow10(k - 1)

RECURSIVE Denoted(_)
Denoted(numeral) ==
    IF numeral = <<>> THEN 0
    ELSE DigitValue[Head(numeral)] * Pow10(Len(numeral) - 1)
            + Denoted(Tail(numeral))

IsToken(str) ==
    /\ Len(str) >= 2
    /\ \A i \in 1..(Len(str) - 1) : str[i] \in {"0", "1", "3", "5"}
    /\ str[Len(str)] \in DOMAIN SecondsOfLetter

\* What parse is to return for a string, in seconds, 0 standing for Invalid.
ExpectedParse(str) ==
    IF ~IsToken(str) THEN 0
    ELSE LET amount == Denoted(SubSeq(str, 1, Len(str) - 1))
             total == amount * SecondsOfLetter[str[Len(str)]]
         IN  IF amount > 0 /\ total <= 30 * 86400 THEN total ELSE 0

ParseExamples ==
    /\ codec.raw = <<"3", "0", "m">> => codec.parsed * 1000 = 1800000
    /\ codec.raw = <<"1", "d">> => codec.parsed * 1000 = 86400000
    /\ codec.raw \in {<<"3", "1", "d">>, <<"0", "m">>, <<"5", "x">>}
          => codec.parsed = 0

\* C25 as stated: parse returns amount x unit for a raw input that is a
\* token within the cap, and Invalid for every other raw input.
C25_ParseOfRawInput ==
    codec.op = "parse" =>
        /\ codec.parsed = ExpectedParse(codec.raw)
        /\ ParseExamples

\* C25, with the blanks around the token set aside: parse returns amount x
\* unit when the raw input without its leading and trailing blanks is a
\* token within the cap, and Invalid for every other raw input.
C25_ParseOfTrimmedInput ==
    codec.op = "parse" =>
        /\ codec.parsed = ExpectedParse(Trim(codec.raw))
        /\ ParseExamples

\* " 1D" was parsed: a day.
C25_Witness ==
    /\ codec.op = "parse" /\ codec.raw = <<" ", "1", "D">>
    /\ codec.parsed = 86400

\* The whole count of a unit in a millisecond value.
WholeCount(ms, u) == ms \div (1000 * UnitS[u])

\* The text names unit u with its whole count, that count is at least 1, and
\* no larger unit has a whole count of at least 1.
LargestWholeUnit(ms, text) ==
    \E u \in DOMAIN UnitS :
        /\ text = <<WholeCount(ms, u), u>>
        /\ WholeCount(ms, u) >= 1
        /\ \A v \in DOMAIN UnitS : UnitS[v] > UnitS[u] => WholeCount(ms, v) < 1

FormatExamples ==
    /\ codec.ms = 90000 => codec.text = <<1, "m">>
    /\ codec.ms = 3600000 => codec.text = <<1, "h">>

\* C26 as stated: for every millisecond value format renders the largest
\* unit whose whole count is at least 1, with that count.
C26_FormatLargestWholeUnit ==
    codec.op = "format" =>
        /\ LargestWholeUnit(codec.ms, codec.text)
        /\ FormatExamples

\* C26, from one second on: format renders the largest unit whose whole
\* count is at least 1, with that count; below one second, where no unit has
\* a whole count of 1, it renders zero seconds.
C26_FormatFromOneSecond ==
    codec.op = "format" =>
        /\ codec.ms >= 1000 => LargestWholeUnit(codec.ms, codec.text)
        /\ codec.ms < 1000 => codec.text = <<0, "s">>
        /\ FormatExamples

\* A minute and a half was formatted: "1m".
C26_Witness ==
    /\ codec.op = "format" /\ codec.ms = 90000
    /\ codec.text = <<1, "m">>

\* ------------------------------------------------------ ledger properties
\* The calls of guild g to which getNextCaseId has returned a value.
Allocated(g) ==
    {p \in CallIds : call[p].guildId = g /\ call[p].caseId # NoCaseId}

ReturnedIds(g) == {CaseIdOf(call[p]) : p \in Allocated(g)}

\* Position of call p in the order of allocation.
AllocPos(p) == CHOOSE i \in 1..Len(allocLog) : allocLog[i] = p

RecordsOf(p) == {c \in cases : c.by = <<"call", p>>}

\* C1: for every community, the integers returned so far by the interleaved
\* getNextCaseId calls on it (the counter being absent at the start) are
\* exactly 1..N, N the number of calls that returned, with no repeats.
C1_AllocatedIdsAreOneToN ==
    \A g \in Guilds :
        /\ ReturnedIds(g) = 1..Cardinality(Allocated(g))
        /\ \A p, q \in Allocated(g) : p # q => call[p].caseId # call[q].caseId

\* Every call of one community has been answered, and a call that started
\* later was answered with a smaller integer than one that started earlier.
C1_Witness ==
    \E g \in Guilds :
        /\ Cardinality(Allocated(g)) = MaxCalls
        /\ \E p, q \in Allocated(g) :
              p < q /\ CaseIdOf(call[q]) < CaseIdOf(call[p])

\* C7: the stored cases of one community that carry a caseId have pairwise
\* distinct caseIds, and of two such cases the one whose id was allocated
\* later carries the strictly larger caseId.
C7_CaseIdsUniqueAndIncreasing ==
    \A c1, c2 \in cases :
        (c1 # c2 /\ c1.guildId = c2.guildId /\ HasCaseId(c1) /\ HasCaseId(c2))
        => /\ c1.caseId # c2.caseId
           /\ \A p, q \in CallIds :
                 (c1.by = <<"call", p>> /\ c2.by = <<"call", q>>
                    /\ AllocPos(p) < AllocPos(q))
                 => CaseIdOf(c1) < CaseIdOf(c2)

\* Two numbered cases of one community are stored, the one with the larger
\* caseId written by the call that started first but was served second.
C7_Witness ==
    \E c1, c2 \in cases : \E p, q \in CallIds :
        /\ c1.guildId = c2.guildId /\ HasCaseId(c1) /\ HasCaseId(c2)
        /\ c1.by = <<"call", p>> /\ c2.by = <<"call", q>>
        /\ p < q /\ CaseIdOf(c2) < CaseIdOf(c1)

\* C8: a createModerationCase call that returned has persisted exactly one
\* record; with generateCaseId it allocated first and the record carries the
\* allocated value, without it the record has no caseId and no counter moved
\* (every counter equals the number of allocations asked for with
\* generateCaseId); no other record exists.
C8_RecordCase ==
    /\ \A p \in CallIds :
          /\ call[p].pc = "done" =>
                /\ Cardinality(RecordsOf(p)) = 1
                /\ \A c \in RecordsOf(p) :
                      /\ c.caseId = call[p].caseId
                      /\ c.guildId = call[p].guildId
                /\ call[p].gen <=> call[p].caseId # NoCaseId
          /\ call[p].pc # "done" => RecordsOf(p) = {}
    /\ Cardinality(cases) = Cardinality({p \in CallIds : call[p].pc = "done"})
    /\ \A g \in Guilds :
          LET asked == {p \in Allocated(g) : call[p].gen}
          IN  IF g \in DOMAIN counters
              THEN counters[g] = Cardinality(asked)
              ELSE Allocated(g) = {}

\* A call without generateCaseId returned in a community whose counter an
\* earlier numbered call had moved, and a numbered call returned as well.
C8_Witness ==
    \E p, q \in CallIds :
        /\ call[p].pc = "done" /\ ~call[p].gen
        /\ call[q].pc = "done" /\ call[q].gen
        /\ call[p].guildId = call[q].guildId
        /\ q < p

\* C9: an id returned to a call whose record write then failed is returned to
\* no other call of that community, and the ledger holds no record of a call
\* that asked for an id but whose record lacks it (in particular none of the
\* failed call).
C9_FailedWriteConsumesId ==
    /\ \A p \in CallIds :
          (call[p].pc = "failed" /\ call[p].caseId # NoCaseId)
          => /\ \A q \in CallIds :
                   (q # p /\ call[q].guildId = call[p].guildId)
                   => call[q].caseId # call[p].caseId
             /\ RecordsOf(p) = {}
    /\ \A p \in CallIds : \A c \in RecordsOf(p) :
          call[p].gen => HasCaseId(c)

\* The write of a call failed after its id was allocated, and a later call
\* of the same community was given an id and stored its record.
C9_Witness ==
    \E p, q \in CallIds :
        /\ call[p].pc = "failed" /\ call[p].caseId # NoCaseId
        /\ call[q].pc = "done" /\ call[q].caseId # NoCaseId
        /\ call[q].guildId = call[p].guildId
        /\ AllocPos(p) < AllocPos(q)

\* C24: in every step, a counter that exists stays and either keeps its
\* value or grows by one; a counter that appears starts at 1; and a counter
\* moves or appears only in the step in which a getNextCaseId call of its own
\* community is answered, the answer being the new value.
C24_CounterLifecycle ==
    [][\A g \in Guilds :
          /\ g \in DOMAIN counters =>
                /\ g \in DOMAIN counters'
                /\ counters'[g] \in {counters[g], counters[g] + 1}
          /\ (g \notin DOMAIN counters /\ g \in DOMAIN counters') =>
                counters'[g] = 1
          /\ (\/ (g \in DOMAIN counters') # (g \in DOMAIN counters)
              \/ (g \in DOMAIN counters /\ counters'[g] # counters[g])) =>
                \E p \in CallIds :
                   /\ call[p].pc = "alloc" /\ call[p].guildId = g
                   /\ call'[p].pc = "create"
                   /\ call'[p].caseId = {counters'[g]}]_vars

\* Both communities have a counter, one moved twice and the other once.
C24_Witness ==
    \E g, h \in Guilds :
        /\ g # h /\ g \in DOMAIN counters /\ h \in DOMAIN counters
        /\ counters[g] = 2 /\ counters[h] = 1

====
